---- MODULE Spec2Model ----
(***************************************************************************)
(* Model of the Palo Alto add-on's collection engine:                      *)
(*   api_handlers.py            GET_api_generic,                           *)
(*                              custom_GET_api_threat_traffic              *)
(*   palo_alto_input_helper.py  xml_to_json, xml_to_metrics,               *)
(*                              process_host_endpoints, stream_events      *)
(*                                                                         *)
(* Text is a sequence of one-character strings, so that strip(), lower(),  *)
(* capitalize(), int() and float() are computed character by character.    *)
(* A JSON value is a record [k, v]: k names the Python type, v holds the   *)
(* value; a dict is a sequence of <<key, value>> pairs in insertion order. *)
(* An XML element is [tag, attrib, text, children] as in ElementTree.      *)
(***************************************************************************)
EXTENDS Integers, Sequences, FiniteSets, TLC

VARIABLES
  \* ---- normaliser run (xml_to_json / xml_to_metrics on one document)
  xpc,            \* "input" | "json" | "metrics"
  xml_text,       \* the document handed to the normaliser
  result,         \* what xml_to_json returned
  metrics_data,   \* what xml_to_metrics returned
  \* ---- one call of custom_GET_api_threat_traffic against a device
  call,           \* the locals of the call (see CallStart)
  served,         \* per job: what the device answered (see JobRecord)
  fault,          \* the first failed exchange of the call, if any
  \* ---- one run of stream_events for one input stanza
  hosts,          \* the configured targets, in order
  api_endpoints,  \* the configured endpoint names, in order
  index_type,     \* "events" | "metrics"
  worker,         \* per target: the locals of process_host_endpoints
  sink,           \* per target: the events its write_event calls delivered
  trace,          \* per target: what happened at each endpoint it visited
  tally,          \* successful_hosts, failed_hosts, total_events_all_hosts
  collected,      \* the targets whose future the controller has consumed
  ctrl,           \* "collecting" | "done" | "raised"
  \* ---- one call of substitute_variables
  url_template,   \* the api_url of the endpoint stanza
  variables,      \* the mapping handed to the template
  api_url,        \* what substitute_variables returned, None before the call
  \* ---- the HTTP requests of a job-polling call that is being counted
  sent            \* the requests.get calls made so far, see NoRequests

xmlVars  == <<xpc, xml_text, result, metrics_data>>
pollVars == <<call, served, fault>>
runVars  == <<hosts, api_endpoints, index_type, worker, sink, trace, tally,
              collected, ctrl>>
substVars == <<url_template, variables, api_url>>

(***************************************************************************)
(* Bounds                                                                  *)
(***************************************************************************)
MaxChildren == 3      \* children of the root in the generated documents
MaxJobs     == 2      \* job identifiers in a submission response
MaxEntries  == 2      \* entries in a job's result document
MaxEndpoints == 2     \* configured endpoint names of a single-target run
NumHosts    == 2      \* configured targets of a fan-out run
MaxPieces   == 3      \* pieces of a generated URL template

(***************************************************************************)
(* Sequences and text                                                      *)
(***************************************************************************)
Range(s) == {s[i] : i \in 1..Len(s)}

RECURSIVE SeqSum(_)
SeqSum(s) == IF s = <<>> THEN 0 ELSE Head(s) + SeqSum(Tail(s))

RECURSIVE Flatten(_)
Flatten(ss) == IF ss = <<>> THEN <<>> ELSE Head(ss) \o Flatten(Tail(ss))

SeqsUpTo(S, n) == UNION {[1..m -> S] : m \in 0..n}

Whitespace == {" ", "\n", "\t"}

RECURSIVE LStrip(_)
LStrip(t) == IF t # <<>> /\ Head(t) \in Whitespace THEN LStrip(Tail(t)) ELSE t

RECURSIVE RStrip(_)
RStrip(t) ==
  IF t # <<>> /\ t[Len(t)] \in Whitespace THEN RStrip(SubSeq(t, 1, Len(t) - 1)) ELSE t

\* str.strip()
Strip(t) == RStrip(LStrip(t))

UpperLetters ==
  <<"A","B","C","D","E","F","G","H","I","J","K","L","M",
    "N","O","P","Q","R","S","T","U","V","W","X","Y","Z">>
LowerLetters ==
  <<"a","b","c","d","e","f","g","h","i","j","k","l","m",
    "n","o","p","q","r","s","t","u","v","w","x","y","z">>

LowerChar(c) ==
  IF \E i \in 1..26 : UpperLetters[i] = c
    THEN LowerLetters[CHOOSE i \in 1..26 : UpperLetters[i] = c] ELSE c
UpperChar(c) ==
  IF \E i \in 1..26 : LowerLetters[i] = c
    THEN UpperLetters[CHOOSE i \in 1..26 : LowerLetters[i] = c] ELSE c

\* str.lower()
Lower(t) == [i \in 1..Len(t) |-> LowerChar(t[i])]
\* str.capitalize(): first character upper-cased, the rest lower-cased
Capitalize(t) == [i \in 1..Len(t) |-> IF i = 1 THEN UpperChar(t[i]) ELSE LowerChar(t[i])]

Digits == <<"0","1","2","3","4","5","6","7","8","9">>
IsDigit(c) == \E i \in 1..10 : Digits[i] = c
DigitVal(c) == (CHOOSE i \in 1..10 : Digits[i] = c) - 1
AllDigits(t) == t # <<>> /\ \A i \in 1..Len(t) : IsDigit(t[i])

RECURSIVE DigitsVal(_)
DigitsVal(t) ==
  IF t = <<>> THEN 0 ELSE 10 * DigitsVal(SubSeq(t, 1, Len(t) - 1)) + DigitVal(t[Len(t)])

HasSign(t) == t # <<>> /\ Head(t) \in {"-", "+"}
Unsigned(t) == IF HasSign(t) THEN Tail(t) ELSE t
SignOf(t) == IF t # <<>> /\ Head(t) = "-" THEN -1 ELSE 1

\* int(text) succeeds: optional sign, then one or more digits
ParsesInt(t) == AllDigits(Unsigned(t))
IntOf(t) == SignOf(t) * DigitsVal(Unsigned(t))

DotAt(t) == {i \in 1..Len(t) : t[i] = "."}
\* float(text) succeeds: optional sign, digits with at most one ".", at least
\* one digit (decimal notation; exponents and inf/nan are outside the alphabet)
ParsesFloat(t) ==
  LET u == Unsigned(t) IN
    /\ u # <<>>
    /\ Cardinality(DotAt(u)) <= 1
    /\ \A i \in 1..Len(u) : IsDigit(u[i]) \/ u[i] = "."
    /\ \E i \in 1..Len(u) : IsDigit(u[i])

RECURSIVE NormFloat(_, _)
\* the float m / 10^s with trailing zero decimals removed
NormFloat(m, s) ==
  IF s > 0 /\ m % 10 = 0 THEN NormFloat(m \div 10, s - 1) ELSE <<m, s>>

\* the value of float(text) as <<mantissa, decimals>>: mantissa / 10^decimals
FloatOf(t) ==
  LET u      == Unsigned(t)
      dot    == IF DotAt(u) = {} THEN Len(u) + 1 ELSE CHOOSE i \in DotAt(u) : TRUE
      whole  == SubSeq(u, 1, dot - 1)
      frac   == SubSeq(u, dot + 1, Len(u))
      mag    == NormFloat(DigitsVal(whole \o frac), Len(frac))
  IN <<SignOf(t) * mag[1], mag[2]>>

(***************************************************************************)
(* JSON values                                                             *)
(***************************************************************************)
JNull        == [k |-> "null",  v |-> 0]
JInt(n)      == [k |-> "int",   v |-> n]
JFloat(f)    == [k |-> "float", v |-> f]
JStr(t)      == [k |-> "str",   v |-> t]
JList(items) == [k |-> "list",  v |-> items]
JDict(pairs) == [k |-> "dict",  v |-> pairs]

DictHas(d, key) == \E i \in 1..Len(d) : d[i][1] = key
DictGet(d, key) == d[CHOOSE i \in 1..Len(d) : d[i][1] = key][2]
\* d[key] = val: an existing key keeps its position
DictSet(d, key, val) ==
  IF DictHas(d, key)
    THEN [i \in 1..Len(d) |-> IF d[i][1] = key THEN <<key, val>> ELSE d[i]]
    ELSE Append(d, <<key, val>>)

RECURSIVE DictUpdate(_, _)
\* d.update(e)
DictUpdate(d, e) ==
  IF e = <<>> THEN d ELSE DictUpdate(DictSet(d, Head(e)[1], Head(e)[2]), Tail(e))

(***************************************************************************)
(* Documents                                                               *)
(***************************************************************************)
Elem(tag, attrib, text, children) ==
  [tag |-> tag, attrib |-> attrib, text |-> text, children |-> children]

\* A text payload: well-formed markup (held as the tree it parses to), a
\* json.dumps() rendering of a value, or anything else.
XmlText(root)   == [form |-> "xml",  body |-> root]
JsonText(value) == [form |-> "json", body |-> value]
Garbage         == [form |-> "junk", body |-> 0]

\* ET.fromstring raises ParseError on everything that is not well-formed
\* markup; a JSON rendering starts with "{" and never is.
ParseFails(text) == text.form # "xml"
ET_fromstring(text) == text.body

\* json.dumps(record, ensure_ascii=False, default=str)
json_dumps(record) == JsonText(record)

(***************************************************************************)
(* xml_to_json                                                             *)
(***************************************************************************)
AttribDict(element) ==
  [i \in 1..Len(element.attrib) |->
     <<"@" \o element.attrib[i][1], JStr(element.attrib[i][2])>>]

\* a mutation of CoerceLeaf: float is tried before int
CoerceLeafFloatFirst(text) ==
  IF ParsesFloat(text) THEN JFloat(FloatOf(text))
  ELSE IF ParsesInt(text) THEN JInt(IntOf(text))
  ELSE JStr(text)

\* int, else float, else the text itself
CoerceLeaf(text) ==
  IF ParsesInt(text) THEN JInt(IntOf(text))
  ELSE IF ParsesFloat(text) THEN JFloat(FloatOf(text))
  ELSE JStr(text)

\* a mutation of AddChild: a repeated tag overwrites the earlier value
AddChildOverwrite(child_dict, tag, child_data) == DictSet(child_dict, tag, child_data)

\* one turn of the loop over children: store bare, or promote and append
AddChild(child_dict, tag, child_data) ==
  IF DictHas(child_dict, tag)
    THEN LET old  == DictGet(child_dict, tag)
             list == IF old.k # "list" THEN <<old>> ELSE old.v
         IN DictSet(child_dict, tag, JList(Append(list, child_data)))
    ELSE DictSet(child_dict, tag, child_data)

RECURSIVE element_to_dict(_)
RECURSIVE ChildDict(_, _)

RECURSIVE ChildDictDropEmpty(_, _)
\* a mutation of ChildDict: a child that converts to None is left out
ChildDictDropEmpty(children, child_dict) ==
  IF children = <<>> THEN child_dict
  ELSE ChildDictDropEmpty(Tail(children),
         IF element_to_dict(Head(children)) = JNull THEN child_dict
         ELSE AddChild(child_dict, Head(children).tag, element_to_dict(Head(children))))

ChildDict(children, child_dict) ==
  IF children = <<>> THEN child_dict
  ELSE ChildDict(Tail(children),
                 AddChild(child_dict, Head(children).tag, element_to_dict(Head(children))))

element_to_dict(element) ==
  LET attrs == AttribDict(element)
      node  == IF element.children # <<>>
                 THEN DictUpdate(attrs, ChildDict(element.children, <<>>))
                 ELSE attrs
      text  == Strip(element.text)
  IN IF text # <<>>
       THEN IF node = <<>> THEN CoerceLeaf(text)
            ELSE JDict(DictSet(node, "#text", JStr(text)))
       ELSE IF node # <<>> THEN JDict(node) ELSE JNull

ParseErrorText == <<"X","M","L"," ","p","a","r","s","i","n","g"," ","f","a","i","l","e","d">>

xml_to_json(text, endpoint_name, host) ==
  LET base == << <<"endpoint", JStr(endpoint_name)>>, <<"host", JStr(host)>> >>
  IN IF ParseFails(text)
       THEN JDict(DictSet(base, "error", JStr(ParseErrorText)))
       ELSE LET root == ET_fromstring(text)
            IN JDict(DictSet(base, "data",
                     JDict(<< <<root.tag, element_to_dict(root)>> >>)))

(***************************************************************************)
(* xml_to_metrics                                                          *)
(***************************************************************************)
RECURSIVE extract_metrics(_, _, _)
RECURSIVE ExtractChildren(_, _, _)

RECURSIVE ExtractChildrenPruned(_, _, _)
\* a mutation of ExtractChildren: the children of an element are visited
\* only when the element itself gave a metric
ExtractChildrenPruned(children, parent_path, md) ==
  IF children = <<>> THEN md
  ELSE LET child       == Head(children)
           metric_path == IF parent_path # "" THEN parent_path \o "." \o child.tag
                          ELSE child.tag
           text_value  == Strip(child.text)
           numeric     == text_value # <<>> /\ ParsesFloat(text_value)
           md1 == IF numeric
                    THEN DictSet(md, "metric_name:" \o metric_path,
                                 JFloat(FloatOf(text_value)))
                    ELSE md
           md2 == IF numeric /\ Len(child.children) > 0
                    THEN extract_metrics(child, metric_path, md1) ELSE md1
       IN ExtractChildrenPruned(Tail(children), parent_path, md2)

RECURSIVE ExtractChildrenKeepFirst(_, _, _)
\* a mutation of ExtractChildren: a path that has a metric keeps it
ExtractChildrenKeepFirst(children, parent_path, md) ==
  IF children = <<>> THEN md
  ELSE LET child       == Head(children)
           metric_path == IF parent_path # "" THEN parent_path \o "." \o child.tag
                          ELSE child.tag
           text_value  == Strip(child.text)
           md1 == IF /\ text_value # <<>> /\ ParsesFloat(text_value)
                     /\ ~DictHas(md, "metric_name:" \o metric_path)
                    THEN DictSet(md, "metric_name:" \o metric_path,
                                 JFloat(FloatOf(text_value)))
                    ELSE md
           md2 == IF Len(child.children) > 0
                    THEN extract_metrics(child, metric_path, md1) ELSE md1
       IN ExtractChildrenKeepFirst(Tail(children), parent_path, md2)

\* the body of the loop for one child, then the rest of the children
ExtractChildren(children, parent_path, md) ==
  IF children = <<>> THEN md
  ELSE LET child       == Head(children)
           metric_path == IF parent_path # "" THEN parent_path \o "." \o child.tag
                          ELSE child.tag
           text_value  == Strip(child.text)
           md1 == IF text_value # <<>> /\ ParsesFloat(text_value)
                    THEN DictSet(md, "metric_name:" \o metric_path,
                                 JFloat(FloatOf(text_value)))
                    ELSE md
           md2 == IF Len(child.children) > 0
                    THEN extract_metrics(child, metric_path, md1) ELSE md1
       IN ExtractChildren(Tail(children), parent_path, md2)

extract_metrics(element, parent_path, md) ==
  ExtractChildren(element.children, parent_path, md)

xml_to_metrics(text, endpoint_name, host) ==
  LET base == << <<"endpoint", JStr(endpoint_name)>>, <<"host", JStr(host)>> >>
  IN IF ParseFails(text) THEN base
     ELSE extract_metrics(ET_fromstring(text), "", base)

(***************************************************************************)
(* ElementTree queries used by the job-polling strategy                    *)
(***************************************************************************)
RECURSIVE Iter(_, _)
\* element.iter(tag): the element itself and its descendants, document order
Iter(element, tag) ==
  (IF element.tag = tag THEN <<element>> ELSE <<>>)
    \o Flatten([i \in 1..Len(element.children) |-> Iter(element.children[i], tag)])

\* the direct children with a tag, in order
ChildrenNamed(element, tag) ==
  SelectSeq(element.children, LAMBDA c : c.tag = tag)

\* the value None
None == [found |-> FALSE, text |-> <<>>]
Found(text) == [found |-> TRUE, text |-> text]

\* element.findtext(".//job/status"): "job" elements strictly below the
\* element, then their "status" children; the text of the first match
FindJobStatus(element) ==
  LET jobs  == Flatten([i \in 1..Len(element.children) |-> Iter(element.children[i], "job")])
      stats == Flatten([i \in 1..Len(jobs) |-> ChildrenNamed(jobs[i], "status")])
  IN IF stats = <<>> THEN None ELSE Found(Head(stats).text)

\* element.findtext(tag, ""): text of the first child with the tag, else ""
FindText(element, tag) ==
  LET cs == ChildrenNamed(element, tag)
  IN IF cs = <<>> THEN <<>> ELSE Head(cs).text

\* element.attrib.get(name), None rendered as the empty text (both falsy)
AttribGet(element, name) ==
  IF \E i \in 1..Len(element.attrib) : element.attrib[i][1] = name
    THEN element.attrib[CHOOSE i \in 1..Len(element.attrib) : element.attrib[i][1] = name][2]
    ELSE <<>>

(***************************************************************************)
(* substitute_variables: string.Template.safe_substitute                   *)
(***************************************************************************)
\* Template.idpattern, [_a-z][_a-z0-9]* matched without regard to case
IdStart(c) == c = "_" \/ (\E i \in 1..26 : LowerLetters[i] = c \/ UpperLetters[i] = c)
IdChar(c)  == IdStart(c) \/ IsDigit(c)

RECURSIVE IdTail(_)
IdTail(t) == IF t # <<>> /\ IdChar(Head(t)) THEN 1 + IdTail(Tail(t)) ELSE 0

\* the length of the longest identifier a text starts with (0: none)
IdLen(t) ==
  IF t # <<>> /\ IdStart(Head(t)) THEN 1 + IdTail(Tail(t)) ELSE 0

\* a mutation of Convert: a name missing from the mapping gives ""
ConvertBlank(mapping, name, whole) ==
  IF DictHas(mapping, name) THEN DictGet(mapping, name) ELSE <<>>

\* safe_substitute's convert() for a named or braced match: the value of
\* the name, or on KeyError the matched text itself
Convert(mapping, name, whole) ==
  IF DictHas(mapping, name) THEN DictGet(mapping, name) ELSE whole

RECURSIVE safe_substitute(_, _)
\* Template.pattern is tried at every "$", left to right: "$$" (escaped),
\* "$name", "${name}", else the "$" is invalid and stays
safe_substitute(t, mapping) ==
  IF t = <<>> THEN <<>>
  ELSE IF Head(t) # "$" THEN <<Head(t)>> \o safe_substitute(Tail(t), mapping)
  ELSE LET r == Tail(t)
       IN IF r # <<>> /\ Head(r) = "$"
            THEN <<"$">> \o safe_substitute(Tail(r), mapping)
          ELSE IF IdLen(r) > 0
            THEN LET n == IdLen(r)
                 IN Convert(mapping, SubSeq(r, 1, n), SubSeq(t, 1, n + 1))
                      \o safe_substitute(SubSeq(r, n + 1, Len(r)), mapping)
          ELSE IF /\ r # <<>> /\ Head(r) = "{"
                  /\ IdLen(Tail(r)) > 0
                  /\ Len(r) >= IdLen(Tail(r)) + 2
                  /\ r[IdLen(Tail(r)) + 2] = "}"
            THEN LET n == IdLen(Tail(r))
                 IN Convert(mapping, SubSeq(r, 2, n + 1), SubSeq(t, 1, n + 3))
                      \o safe_substitute(SubSeq(r, n + 3, Len(r)), mapping)
          ELSE <<"$">> \o safe_substitute(r, mapping)

\* lines 42-45
substitute_variables(template, mapping) == safe_substitute(template, mapping)

(***************************************************************************)
(* custom_GET_api_threat_traffic                                           *)
(***************************************************************************)
PollAttempts == 11

S_FIN      == <<"F","I","N">>
S_high     == <<"h","i","g","h">>
S_critical == <<"c","r","i","t","i","c","a","l">>
S_warn     == <<"w","a","r","n">>

\* the f-string of the "message" field
MessageOf(entry, logid, severity) ==
  severity \o <<" ",":",":"," ","[">> \o logid \o <<"]"," ">>
    \o FindText(entry, "type") \o <<" ","-"," ">>
    \o Capitalize(FindText(entry, "subtype")) \o <<" ",":"," ">>
    \o FindText(entry, "threatid") \o <<" ","(">>
    \o FindText(entry, "direction") \o <<" ">> \o FindText(entry, "src")
    \o <<" ","-",">"," ">> \o FindText(entry, "dst") \o <<")">>

EventOf(entry, host) ==
  LET logid    == AttribGet(entry, "logid")
      severity == FindText(entry, "severity")
  IN JDict(<< <<"happenedOn", JStr(FindText(entry, "time_generated"))>>,
              <<"severity",   JStr(S_warn)>>,
              <<"source",     JStr(host)>>,
              <<"message",    JStr(MessageOf(entry, logid, severity))>> >>)

\* a mutation of KeepsEntry: the severity is compared without lower()
KeepsEntryCaseSensitive(entry) ==
  /\ AttribGet(entry, "logid") # <<>>
  /\ FindText(entry, "severity") \in {S_high, S_critical}

\* the two tests an entry passes before it is appended
KeepsEntry(entry) ==
  /\ AttribGet(entry, "logid") # <<>>
  /\ Lower(FindText(entry, "severity")) \in {S_high, S_critical}

\* a mutation of KeptEvents: the kept entries are appended last to first
KeptEventsReversed(xml_root, host) ==
  LET kept == SelectSeq(Iter(xml_root, "entry"), KeepsEntry)
  IN [i \in 1..Len(kept) |-> EventOf(kept[Len(kept) + 1 - i], host)]

\* the loop over xml_root.iter("entry") of a finished job
KeptEvents(xml_root, host) ==
  LET kept == SelectSeq(Iter(xml_root, "entry"), KeepsEntry)
  IN [i \in 1..Len(kept) |-> EventOf(kept[i], host)]

\* An HTTP exchange: requests.get followed by raise_for_status either
\* raises a RequestException or yields the response text.
HttpError     == [http |-> "error", text |-> Garbage]
HttpOk(text)  == [http |-> "ok",    text |-> text]

\* The locals of one running call.  pc: "polling" inside the loops,
\* "returned" after the return statement, "raised" when an exception left
\* the function (exc names it).
CallStart(host) ==
  [pc |-> "start", host |-> host, job_ids |-> <<>>, job |-> 0, i |-> 0,
   event_list |-> <<>>, exc |-> ""]

\* An exception leaves the function: the except clauses log and re-raise
\* (lines 161-169); the locals, event_list included, are gone.
Raise(fr, exc) ==
  [fr EXCEPT !.pc = "raised", !.exc = exc, !.job = 0, !.i = 0, !.event_list = <<>>]

\* line 159: event_list is the return value; the loop variables are gone
Return(fr) == [fr EXCEPT !.pc = "returned", !.job = 0, !.i = 0]

\* the for loop over job_ids moves on (or the function returns)
NextJob(fr) ==
  IF fr.job < Len(fr.job_ids)
    THEN [fr EXCEPT !.job = fr.job + 1, !.i = 0]
    ELSE Return(fr)

\* a mutation of SubmitStep: an unparseable submission yields no records
SubmitStepSwallow(fr, resp) ==
  LET c1 == fr
  IN IF resp.http = "error" THEN Raise(c1, "RequestException")
     ELSE IF ParseFails(resp.text) THEN Return(c1)
     ELSE LET ids == [e \in 1..Len(Iter(ET_fromstring(resp.text), "job")) |->
                        Iter(ET_fromstring(resp.text), "job")[e].text]
          IN IF ids = <<>>
               THEN Return(c1)
               ELSE [c1 EXCEPT !.pc = "polling", !.job_ids = ids, !.job = 1, !.i = 0]

\* lines 100-108: the submission request and the job identifiers
SubmitStep(fr, resp) ==
  LET c1 == fr
  IN IF resp.http = "error" THEN Raise(c1, "RequestException")
     ELSE IF ParseFails(resp.text) THEN Raise(c1, "ParseError")
     ELSE LET ids == [e \in 1..Len(Iter(ET_fromstring(resp.text), "job")) |->
                        Iter(ET_fromstring(resp.text), "job")[e].text]
          IN IF ids = <<>>
               THEN Return(c1)
               ELSE [c1 EXCEPT !.pc = "polling", !.job_ids = ids, !.job = 1, !.i = 0]

\* a mutation of PollStep: a job that used up its attempts raises
PollStepRaiseOnTimeout(fr, resp) ==
  LET c1 == fr
  IN IF resp.http = "error" THEN Raise(c1, "RequestException")
     ELSE IF ParseFails(resp.text) THEN Raise(c1, "ParseError")
     ELSE LET xml_root == ET_fromstring(resp.text)
          IN IF FindJobStatus(xml_root) = Found(S_FIN)
               THEN NextJob([c1 EXCEPT !.event_list = @ \o KeptEvents(xml_root, fr.host)])
               ELSE IF fr.i + 1 < PollAttempts
                      THEN [c1 EXCEPT !.i = fr.i + 1]
                      ELSE Raise(c1, "Timeout")

\* a mutation of PollStep: a failed status request uses up an attempt
PollStepRetry(fr, resp) ==
  LET c1 == fr
  IN IF resp.http = "error" \/ ParseFails(resp.text)
       THEN IF fr.i + 1 < PollAttempts THEN [c1 EXCEPT !.i = fr.i + 1] ELSE NextJob(c1)
     ELSE LET xml_root == ET_fromstring(resp.text)
          IN IF FindJobStatus(xml_root) = Found(S_FIN)
               THEN NextJob([c1 EXCEPT !.event_list = @ \o KeptEvents(xml_root, fr.host)])
               ELSE IF fr.i + 1 < PollAttempts
                      THEN [c1 EXCEPT !.i = fr.i + 1]
                      ELSE NextJob(c1)

\* a mutation of PollStep: the loop makes one more turn than range(11)
PollStepTwelve(fr, resp) ==
  LET c1 == fr
  IN IF resp.http = "error" THEN Raise(c1, "RequestException")
     ELSE IF ParseFails(resp.text) THEN Raise(c1, "ParseError")
     ELSE LET xml_root == ET_fromstring(resp.text)
          IN IF FindJobStatus(xml_root) = Found(S_FIN)
               THEN NextJob([c1 EXCEPT !.event_list = @ \o KeptEvents(xml_root, fr.host)])
               ELSE IF fr.i + 1 < PollAttempts + 1
                      THEN [c1 EXCEPT !.i = fr.i + 1]
                      ELSE NextJob(c1)

\* a mutation of PollStep: a finished job is polled on, without the break
PollStepNoBreak(fr, resp) ==
  LET c1 == fr
  IN IF resp.http = "error" THEN Raise(c1, "RequestException")
     ELSE IF ParseFails(resp.text) THEN Raise(c1, "ParseError")
     ELSE LET xml_root == ET_fromstring(resp.text)
              c2 == IF FindJobStatus(xml_root) = Found(S_FIN)
                      THEN [c1 EXCEPT !.event_list = @ \o KeptEvents(xml_root, fr.host)]
                      ELSE c1
          IN IF fr.i + 1 < PollAttempts
               THEN [c2 EXCEPT !.i = fr.i + 1]
               ELSE NextJob(c2)

\* lines 117-153: one turn of "for i in range(11)" for the current job
PollStep(fr, resp) ==
  LET c1 == fr
  IN IF resp.http = "error" THEN Raise(c1, "RequestException")
     ELSE IF ParseFails(resp.text) THEN Raise(c1, "ParseError")
     ELSE LET xml_root == ET_fromstring(resp.text)
          IN IF FindJobStatus(xml_root) = Found(S_FIN)
               THEN NextJob([c1 EXCEPT !.event_list = @ \o KeptEvents(xml_root, fr.host)])
               ELSE IF fr.i + 1 < PollAttempts
                      THEN [c1 EXCEPT !.i = fr.i + 1]
                      ELSE NextJob(c1)

(***************************************************************************)
(* The device: submission and job-status documents                         *)
(***************************************************************************)
Leaf(tag, text) == Elem(tag, <<>>, text, <<>>)

\* A log entry as the device holds it: hasId/hasSev say whether the logid
\* attribute and the severity element are present at all.
Entry(hasId, logid, hasSev, sev) ==
  [hasId |-> hasId, logid |-> logid, hasSev |-> hasSev, sev |-> sev]

EntryPool ==
  { Entry(TRUE,  <<"1">>, TRUE,  <<"H","i","g","h">>),
    Entry(TRUE,  <<"2">>, TRUE,  <<"L","o","w">>),
    Entry(TRUE,  <<"3">>, TRUE,  <<"C","R","I","T","I","C","A","L">>),
    Entry(FALSE, <<>>,    TRUE,  <<"c","r","i","t","i","c","a","l">>),
    Entry(TRUE,  <<"5">>, FALSE, <<>>),
    Entry(TRUE,  <<"6">>, TRUE,  <<"m","e","d","i","u","m">>),
    Entry(TRUE,  <<"7">>, TRUE,
          <<"i","n","f","o","r","m","a","t","i","o","n","a","l">>),
    Entry(TRUE,  <<>>,    TRUE,  <<"h","i","g","h">>) }

\* Result documents: any sequence of the two entries that are kept, the
\* pair of a kept and a dropped entry, and every entry on its own.
CorePool ==
  { Entry(TRUE,  <<"1">>, TRUE,  <<"H","i","g","h">>),
    Entry(TRUE,  <<"3">>, TRUE,  <<"C","R","I","T","I","C","A","L">>) }

EntryLists ==
  SeqsUpTo(CorePool, MaxEntries)
    \cup {<<d>> : d \in EntryPool}
    \cup {<<Entry(TRUE, <<"1">>, TRUE, <<"H","i","g","h">>),
            Entry(TRUE, <<"2">>, TRUE, <<"L","o","w">>)>>}

EntryElem(d) ==
  Elem("entry",
       IF d.hasId THEN << <<"logid", d.logid>> >> ELSE <<>>,
       <<>>,
       <<Leaf("time_generated", <<"0","9",":","0","0">>)>>
         \o (IF d.hasSev THEN <<Leaf("severity", d.sev)>> ELSE <<>>)
         \o <<Leaf("type", <<"T","H","R","E","A","T">>),
              Leaf("subtype", <<"v","U","L","N">>),
              Leaf("threatid", <<"9">>),
              Leaf("direction", <<"c","2","s">>),
              Leaf("src", <<"s">>),
              Leaf("dst", <<"d">>)>>)

\* <response><result><job>1</job><job>2</job>...</result></response>
SubmitDoc(n) ==
  XmlText(Elem("response", <<>>, <<>>,
    <<Elem("result", <<>>, <<>>,
        [j \in 1..n |-> Leaf("job", <<Digits[j + 1]>>)])>>))

\* what a job-status document says about the job: a status text or none
StatusTexts == {S_FIN, <<"A","C","T">>, <<"P","E","N","D">>, <<"f","i","n">>, <<>>}

\* <response><result><job><status>..</status></job>
\*   <log><logs><entry ../>..</logs></log></result></response>
StatusDoc(hasStatus, status, entries) ==
  XmlText(Elem("response", <<>>, <<>>,
    <<Elem("result", <<>>, <<>>,
        <<Elem("job", <<>>, <<>>,
               IF hasStatus THEN <<Leaf("status", status)>> ELSE <<>>),
          Elem("log", <<>>, <<>>,
               <<Elem("logs", <<>>, <<>>,
                      [j \in 1..Len(entries) |-> EntryElem(entries[j])])>>)>>)>>))

HOST_dev == <<"1","0",".","0",".","0",".","5">>

(***************************************************************************)
(* One call of the job-polling strategy, request by request                *)
(***************************************************************************)
NoFault == [kind |-> "none", at |-> "", held |-> 0]

\* the requests.get calls made so far: the submission, and per job the
\* status requests
NoRequests == [submit |-> 0, status |-> <<>>]

\* waits: the not-finished answers an unfinished job has had; fin: the job
\* was reported finished, with these entries
JobRecord == [waits |-> 0, fin |-> FALSE, entries |-> <<>>]

\* the submission is answered with n job identifiers
Submit ==
  /\ call.pc = "start"
  /\ \E n \in 0..MaxJobs :
       /\ call' = SubmitStep(call, HttpOk(SubmitDoc(n)))
       /\ served' = [j \in 1..n |-> JobRecord]
  /\ UNCHANGED fault

\* the submission fails in transport (connection, timeout, status code)
SubmitTransportError ==
  /\ call.pc = "start"
  /\ call' = SubmitStep(call, HttpError)
  /\ fault' = [kind |-> "transport", at |-> "submit", held |-> 0]
  /\ UNCHANGED served

\* the submission is answered with text that is not markup
SubmitMalformed ==
  /\ call.pc = "start"
  /\ call' = SubmitStep(call, HttpOk(Garbage))
  /\ fault' = [kind |-> "parse", at |-> "submit", held |-> 0]
  /\ UNCHANGED served

\* a status request is answered: the job is finished, with its entries
PollFinished ==
  /\ call.pc = "polling"
  /\ \E entries \in EntryLists :
       /\ call' = PollStep(call, HttpOk(StatusDoc(TRUE, S_FIN, entries)))
       /\ served' = [served EXCEPT ![call.job] =
                       [waits |-> 0, fin |-> TRUE, entries |-> entries]]
  /\ UNCHANGED fault

StrayEntries == <<Entry(TRUE, <<"1">>, TRUE, <<"H","i","g","h">>)>>

\* a status request is answered: any other status, or none at all
PollNotFinished ==
  /\ call.pc = "polling"
  /\ \E answer \in {StatusDoc(TRUE, status, <<>>) : status \in StatusTexts \ {S_FIN}}
                   \cup {StatusDoc(FALSE, <<>>, StrayEntries)} :
       call' = PollStep(call, HttpOk(answer))
  /\ served' = [served EXCEPT ![call.job].waits = @ + 1]
  /\ UNCHANGED fault

\* a status request fails in transport
PollTransportError ==
  /\ call.pc = "polling"
  /\ call' = PollStep(call, HttpError)
  /\ UNCHANGED served
  /\ fault' = [kind |-> "transport", at |-> "poll", held |-> Len(call.event_list)]

\* a status request is answered with text that is not markup
PollMalformed ==
  /\ call.pc = "polling"
  /\ call' = PollStep(call, HttpOk(Garbage))
  /\ UNCHANGED served
  /\ fault' = [kind |-> "parse", at |-> "poll", held |-> Len(call.event_list)]

(***************************************************************************)
(* The whole call against a scripted device                                *)
(***************************************************************************)
\* A script: the answer to the submission and the answers to the status
\* requests in the order they are made; once they are used up the device
\* keeps answering "not finished".
Script(submit, polls) == [submit |-> submit, polls |-> polls]

StillRunning == HttpOk(StatusDoc(TRUE, <<"A","C","T">>, <<>>))

RECURSIVE RunPolls(_, _, _)
\* the turns of the poll loops against the script, with the status requests
\* counted: the frame the call ends in and the requests.get calls it made
RunPolls(fr, polls, n) ==
  IF fr.pc # "polling" THEN [fr |-> fr, requests |-> n]
  ELSE IF polls = <<>> THEN RunPolls(PollStep(fr, StillRunning), <<>>, n + 1)
  ELSE RunPolls(PollStep(fr, Head(polls)), Tail(polls), n + 1)

\* the call from its submission request (the first requests.get) on
ThreatCall(host, script) ==
  RunPolls(SubmitStep(CallStart(host), script.submit), script.polls, 1)

custom_GET_api_threat_traffic(host, script) == ThreatCall(host, script).fr

(***************************************************************************)
(* GET_api_generic                                                         *)
(***************************************************************************)
JText(text) == [k |-> "text", v |-> text]

\* a mutation of GET_api_generic: a failed exchange gives an empty list
GET_api_genericSwallow(resp) ==
  IF resp.http = "error"
    THEN [pc |-> "returned", exc |-> "", event_list |-> <<>>]
    ELSE [pc |-> "returned", exc |-> "",
          event_list |-> <<JDict(<< <<"_raw", JText(resp.text)>> >>)>>]

\* raises on a failed exchange, else returns [{"_raw": response.text}]
GET_api_generic(resp) ==
  IF resp.http = "error"
    THEN [pc |-> "raised", exc |-> "RequestException", event_list |-> <<>>]
    ELSE [pc |-> "returned", exc |-> "",
          event_list |-> <<JDict(<< <<"_raw", JText(resp.text)>> >>)>>]

(***************************************************************************)
(* process_host_endpoints: one endpoint                                    *)
(***************************************************************************)
\* The endpoint stanzas of the configuration: name -> script_type.
N_g == <<"g">>
N_t == <<"t">>
N_u == <<"u">>
N_n == <<"n">>

HasConfig(name) == name \in {N_g, N_t, N_u}
ScriptType(name) ==
  IF name = N_g THEN "GET_api_generic_xml_output"
  ELSE IF name = N_t THEN "custom_GET_api_threat_traffic"
  ELSE "other"

\* lines 250-253 and 277-280: the text handed to the normaliser
RecordText(record) ==
  IF record.k = "dict" /\ DictHas(record.v, "_raw")
    THEN DictGet(record.v, "_raw").v
    ELSE json_dumps(record)

\* smi.Event(data=..., source=f"palo_alto:{endpoint_name}", host=host)
Event(data, endpoint_name, host) ==
  [data |-> data, source |-> endpoint_name, host |-> host]

\* What the device and the sink do during one endpoint: the answer to a
\* generic request, the script of a job-polling call, and which write_event
\* call (if any) raises.
Env(resp, script, failAt) == [resp |-> resp, script |-> script, failAt |-> failAt]

\* The progress of the ingest loops: events delivered, write_event calls
\* made, what was added to total_events, and whether an exception ended it.
Ingest0 == [written |-> <<>>, calls |-> 0, counted |-> 0, raised |-> FALSE]

\* a mutation of HasMetrics: a MetricSet is written whatever it holds
HasMetricsAlways(metrics_dict) == Len(metrics_dict) >= 2

\* line 259
HasMetrics(metrics_dict) == Len(metrics_dict) > 2

RECURSIVE MetricsLoop(_, _, _, _, _)
\* lines 248-272
MetricsLoop(data, acc, endpoint_name, host, failAt) ==
  IF data = <<>> \/ acc.raised THEN acc
  ELSE LET metrics_dict == xml_to_metrics(RecordText(Head(data)), endpoint_name, host)
           next ==
             IF ~HasMetrics(metrics_dict) THEN acc
             ELSE IF failAt = acc.calls + 1
               THEN [acc EXCEPT !.calls = @ + 1, !.raised = TRUE]
               ELSE [acc EXCEPT !.calls = @ + 1, !.counted = @ + 1,
                       !.written = Append(@, Event(json_dumps(JDict(metrics_dict)),
                                                   endpoint_name, host))]
       IN MetricsLoop(Tail(data), next, endpoint_name, host, failAt)

RECURSIVE EventsLoopSkipErrors(_, _, _, _, _)
\* a mutation of EventsLoop: a document that does not parse is not written
EventsLoopSkipErrors(data, acc, endpoint_name, host, failAt) ==
  IF data = <<>> \/ acc.raised THEN acc
  ELSE LET event_dict == xml_to_json(RecordText(Head(data)), endpoint_name, host)
           next ==
             IF DictHas(event_dict.v, "error") THEN acc
             ELSE IF failAt = acc.calls + 1
               THEN [acc EXCEPT !.calls = @ + 1, !.raised = TRUE]
               ELSE [acc EXCEPT !.calls = @ + 1,
                       !.written = Append(@, Event(json_dumps(event_dict),
                                                   endpoint_name, host))]
       IN EventsLoopSkipErrors(Tail(data), next, endpoint_name, host, failAt)

RECURSIVE EventsLoop(_, _, _, _, _)
\* lines 275-296
EventsLoop(data, acc, endpoint_name, host, failAt) ==
  IF data = <<>> \/ acc.raised THEN acc
  ELSE LET event_dict == xml_to_json(RecordText(Head(data)), endpoint_name, host)
           next ==
             IF failAt = acc.calls + 1
               THEN [acc EXCEPT !.calls = @ + 1, !.raised = TRUE]
               ELSE [acc EXCEPT !.calls = @ + 1,
                       !.written = Append(@, Event(json_dumps(event_dict),
                                                   endpoint_name, host))]
       IN EventsLoop(Tail(data), next, endpoint_name, host, failAt)

\* lines 246-299
Ingest(data, mode, endpoint_name, host, failAt) ==
  IF mode = "metrics"
    THEN MetricsLoop(data, Ingest0, endpoint_name, host, failAt)
    ELSE LET acc == EventsLoop(data, Ingest0, endpoint_name, host, failAt)
         IN IF acc.raised THEN acc ELSE [acc EXCEPT !.counted = Len(data)]

\* lines 237-240: the strategy call of an endpoint: what it returned or
\* raised, and the requests.get calls it made (one for the generic strategy)
Fetch(script_type, host, env) ==
  IF script_type = "GET_api_generic_xml_output"
    THEN [ret |-> GET_api_generic(env.resp), requests |-> 1]
    ELSE LET c == ThreatCall(host, env.script)
         IN [ret |-> c.fr, requests |-> c.requests]

\* What one turn of the endpoint loop did.  status: "blank" (line 214),
\* "unknown" (line 243), "raised" (line 301) or "done"; docs: the texts of
\* the records of an endpoint that was ingested to the end; requests: the
\* HTTP requests its strategy made.
Outcome(status, docs, acc, requests) ==
  [status |-> status, docs |-> IF status = "done" THEN docs ELSE <<>>,
   written |-> acc.written, calls |-> acc.calls, counted |-> acc.counted,
   requests |-> requests]

\* a mutation of ProcessEndpoint: an endpoint without a known script_type
\* is fetched with the generic strategy
ProcessEndpointFallback(raw_name, mode, host, env) ==
  LET endpoint_name == Strip(raw_name)
  IN IF endpoint_name = <<>> THEN Outcome("blank", <<>>, Ingest0, 0)
     ELSE IF ~HasConfig(endpoint_name) THEN Outcome("raised", <<>>, Ingest0, 0)
     ELSE LET run == IF ScriptType(endpoint_name) # "custom_GET_api_threat_traffic"
                       THEN Fetch("GET_api_generic_xml_output", host, env)
                       ELSE Fetch(ScriptType(endpoint_name), host, env)
              ret == run.ret
              requests == run.requests
          IN IF ret.pc = "raised" THEN Outcome("raised", <<>>, Ingest0, requests)
             ELSE LET data == ret.event_list
                      docs == [j \in 1..Len(data) |-> RecordText(data[j])]
                      acc  == Ingest(data, mode, endpoint_name, host, env.failAt)
                  IN Outcome(IF acc.raised THEN "raised" ELSE "done", docs, acc, requests)

\* lines 212-304 for one endpoint name
ProcessEndpoint(raw_name, mode, host, env) ==
  LET endpoint_name == Strip(raw_name)
  IN IF endpoint_name = <<>> THEN Outcome("blank", <<>>, Ingest0, 0)
     ELSE IF ~HasConfig(endpoint_name) THEN Outcome("raised", <<>>, Ingest0, 0)
     ELSE IF ScriptType(endpoint_name) \notin
               {"GET_api_generic_xml_output", "custom_GET_api_threat_traffic"}
       THEN Outcome("unknown", <<>>, Ingest0, 0)
     ELSE LET run == Fetch(ScriptType(endpoint_name), host, env)
              ret == run.ret
              requests == run.requests
          IN IF ret.pc = "raised" THEN Outcome("raised", <<>>, Ingest0, requests)
             ELSE LET data == ret.event_list
                      docs == [j \in 1..Len(data) |-> RecordText(data[j])]
                      acc  == Ingest(data, mode, endpoint_name, host, env.failAt)
                  IN Outcome(IF acc.raised THEN "raised" ELSE "done", docs, acc, requests)

(***************************************************************************)
(* process_host_endpoints and stream_events, step by step                  *)
(***************************************************************************)
HostAddr(n) == <<"1","0",".","0",".","0",".", Digits[n + 1]>>

Targets == 1..Len(hosts)

\* the tuple a worker returns
HostResult(host, count, success) == [host |-> host, count |-> count, success |-> success]
NoResult == HostResult(<<>>, 0, FALSE)

\* line 205: the locals of a worker that has just been submitted
WorkerStart == [pc |-> "running", ep |-> 1, total_events |-> 0, ret |-> NoResult,
                hostErr |-> FALSE]

Tally0 == [successful_hosts |-> 0, failed_hosts |-> 0, total_events_all_hosts |-> 0,
           exc |-> FALSE]

\* what the devices answer to a generic request
Doc_m == XmlText(Elem("r", <<>>, <<>>, <<Leaf("a", <<"1">>), Leaf("b", <<"x">>)>>))
Doc_n == XmlText(Elem("r", <<>>, <<>>, <<Leaf("b", <<"x">>)>>))
GenericAnswers == {HttpError, HttpOk(Doc_m), HttpOk(Doc_n), HttpOk(Garbage)}

\* how the devices behave during a job-polling call
E_high == Entry(TRUE, <<"1">>, TRUE, <<"H","i","g","h">>)
E_low  == Entry(TRUE, <<"2">>, TRUE, <<"L","o","w">>)
E_crit == Entry(TRUE, <<"3">>, TRUE, <<"C","R","I","T","I","C","A","L">>)
Fin(entries) == HttpOk(StatusDoc(TRUE, S_FIN, entries))

S_down  == Script(HttpError, <<>>)
S_junk  == Script(HttpOk(SubmitDoc(1)), <<HttpOk(Garbage)>>)
S_none  == Script(HttpOk(SubmitDoc(0)), <<>>)
S_stall == Script(HttpOk(SubmitDoc(1)), <<>>)
S_one   == Script(HttpOk(SubmitDoc(1)), <<Fin(<<E_high, E_low>>)>>)
S_two   == Script(HttpOk(SubmitDoc(2)), <<StillRunning, Fin(<<E_high>>), Fin(<<E_crit>>)>>)
ThreatScripts == {S_down, S_junk, S_none, S_stall, S_one, S_two}

\* the write_event call that raises: none (0), the first or the second
SinkFailures == 0..2

\* everything that can happen around one endpoint
EnvsFor(raw_name) ==
  IF Strip(raw_name) = N_g
    THEN {Env(resp, S_none, failAt) : resp \in GenericAnswers, failAt \in SinkFailures}
  ELSE IF Strip(raw_name) = N_t
    THEN {Env(HttpError, script, failAt) : script \in ThreatScripts, failAt \in SinkFailures}
  ELSE {Env(HttpError, S_none, 0)}

\* a mutation of NextEndpoint: a failed endpoint ends the loop
NextEndpointBreak(ep, out) ==
  IF out.status = "raised" THEN Len(api_endpoints) + 1 ELSE ep + 1

\* lines 211, 214, 243, 304: the loop goes on to the next name in every case
NextEndpoint(ep, out) == ep + 1

\* what the trace keeps of an endpoint's outcome
Visit(ep, out) ==
  [ep |-> ep, status |-> out.status, docs |-> out.docs, calls |-> out.calls,
   wrote |-> Len(out.written), counted |-> out.counted, requests |-> out.requests]

\* lines 211-304: one turn of the loop over api_endpoints
EndpointStep(h) ==
  /\ worker[h].pc = "running"
  /\ worker[h].ep <= Len(api_endpoints)
  /\ \E out \in { ProcessEndpoint(api_endpoints[worker[h].ep], index_type, hosts[h], env) :
                     env \in EnvsFor(api_endpoints[worker[h].ep]) } :
          /\ worker' = [worker EXCEPT ![h].ep = NextEndpoint(@, out),
                                      ![h].total_events = @ + out.counted]
          /\ sink' = [sink EXCEPT ![h] = @ \o out.written]
          /\ trace' = [trace EXCEPT ![h] = Append(@, Visit(worker[h].ep, out))]
  /\ UNCHANGED <<hosts, api_endpoints, index_type, tally, collected, ctrl>>

\* a mutation of WorkerReturn: a worker that saw an endpoint raise reports
\* failure
WorkerReturnStrict(h) ==
  /\ worker[h].pc = "running"
  /\ worker[h].ep > Len(api_endpoints)
  /\ worker' = [worker EXCEPT ![h].pc = "returned",
                  ![h].ret =
                    IF \E j \in 1..Len(trace[h]) : trace[h][j].status = "raised"
                      THEN HostResult(hosts[h], 0, FALSE)
                      ELSE HostResult(hosts[h], worker[h].total_events, TRUE)]
  /\ UNCHANGED <<hosts, api_endpoints, index_type, sink, trace, tally, collected, ctrl>>

\* lines 306-307: the loop is over
WorkerReturn(h) ==
  /\ worker[h].pc = "running"
  /\ worker[h].ep > Len(api_endpoints)
  /\ worker' = [worker EXCEPT ![h].pc = "returned",
                  ![h].ret = HostResult(hosts[h], worker[h].total_events, TRUE)]
  /\ UNCHANGED <<hosts, api_endpoints, index_type, sink, trace, tally, collected, ctrl>>

\* lines 309-311: an exception outside the per-endpoint try (the logging
\* calls of lines 208, 216, 302 and 306) is caught and (host, 0, False)
\* returned; when the logging call of line 310 raises as well the exception
\* leaves the worker.
HostError(h) ==
  /\ worker[h].pc = "running"
  /\ \E escapes \in BOOLEAN :
       worker' = [worker EXCEPT
                    ![h].pc = IF escapes THEN "raised" ELSE "returned",
                    ![h].ret = IF escapes THEN NoResult ELSE HostResult(hosts[h], 0, FALSE),
                    ![h].hostErr = TRUE]
  /\ UNCHANGED <<hosts, api_endpoints, index_type, sink, trace, tally, collected, ctrl>>

\* a mutation of TallyStep: the success flag of the result is not looked at
TallyStepAllSucceed(t, w) ==
  IF w.pc = "raised"
    THEN [t EXCEPT !.failed_hosts = @ + 1]
    ELSE [t EXCEPT !.successful_hosts = @ + 1,
                   !.total_events_all_hosts = @ + w.ret.count]

\* lines 393-404: one future is consumed
TallyStep(t, w) ==
  IF w.pc = "raised"
    THEN [t EXCEPT !.failed_hosts = @ + 1]
    ELSE IF w.ret.success
      THEN [t EXCEPT !.successful_hosts = @ + 1,
                     !.total_events_all_hosts = @ + w.ret.count]
      ELSE [t EXCEPT !.failed_hosts = @ + 1]

\* a mutation of Collect: the exception of a worker leaves the result loop
CollectPropagate(h) ==
  /\ ctrl = "collecting"
  /\ h \notin collected
  /\ worker[h].pc \in {"returned", "raised"}
  /\ tally' = IF worker[h].pc = "raised" THEN tally ELSE TallyStep(tally, worker[h])
  /\ collected' = collected \cup {h}
  /\ ctrl' = IF worker[h].pc = "raised" THEN "raised" ELSE ctrl
  /\ UNCHANGED <<hosts, api_endpoints, index_type, worker, sink, trace>>

\* lines 391-404: as_completed hands over a finished worker
Collect(h) ==
  /\ ctrl = "collecting"
  /\ h \notin collected
  /\ worker[h].pc \in {"returned", "raised"}
  /\ tally' = TallyStep(tally, worker[h])
  /\ collected' = collected \cup {h}
  /\ ctrl' = IF tally'.exc THEN "raised" ELSE ctrl
  /\ UNCHANGED <<hosts, api_endpoints, index_type, worker, sink, trace>>

\* lines 406-409: every future is consumed, the summary is logged
Summary ==
  /\ ctrl = "collecting"
  /\ collected = Targets
  /\ ctrl' = "done"
  /\ UNCHANGED <<hosts, api_endpoints, index_type, worker, sink, trace, tally, collected>>

EndpointNames == {N_g, N_t, N_u, N_n, <<" ">>, <<" ", "g">>}

(***************************************************************************)
(* Generated documents                                                     *)
(***************************************************************************)
T_1   == <<"1">>
T_2   == <<"2">>
T_15  == <<"1", ".", "5">>
T_x   == <<"x">>
T_pad == <<" ", "7", "\n">>
T_ws  == <<"\n", " ">>

LeafTexts == {<<>>, T_1, T_2, T_15, T_x, T_pad}
Leaves == {Elem(tag, <<>>, text, <<>>) : tag \in {"a", "b"}, text \in LeafTexts}
Nested ==
  { Elem("a", <<>>, T_ws, <<Elem("b", <<>>, T_1, <<>>), Elem("b", <<>>, T_x, <<>>)>>),
    Elem("b", << <<"id", T_2>> >>, T_15, <<>>),
    Elem("c", <<>>, T_2, <<Elem("a", <<>>, T_15, <<>>)>>) }
ChildElems == Leaves \cup Nested

RootElems ==
  { Elem("r", attrib, text, children) :
      attrib \in {<<>>}, text \in {<<>>, T_ws},
      children \in SeqsUpTo(ChildElems, MaxChildren) }

XmlTexts == {Garbage} \cup {XmlText(root) : root \in RootElems}

EP_doc   == <<"g">>
HOST_doc == <<"h">>

(***************************************************************************)
(* Normaliser run                                                          *)
(***************************************************************************)
InitXml ==
  /\ xpc = "input"
  /\ xml_text \in XmlTexts
  /\ result = JNull
  /\ metrics_data = <<>>
  /\ call = CallStart(HOST_dev)
  /\ served = <<>>
  /\ fault = NoFault
  /\ hosts = <<>>
  /\ api_endpoints = <<>>
  /\ index_type = "events"
  /\ worker = <<>>
  /\ sink = <<>>
  /\ trace = <<>>
  /\ tally = Tally0
  /\ collected = {}
  /\ ctrl = "done"
  /\ url_template = <<>>
  /\ variables = <<>>
  /\ api_url = None
  /\ sent = NoRequests

XmlToJson ==
  /\ xpc = "input"
  /\ result' = xml_to_json(xml_text, EP_doc, HOST_doc)
  /\ xpc' = "json"
  /\ UNCHANGED <<xml_text, metrics_data>>
  /\ UNCHANGED <<pollVars, runVars, substVars, sent>>

XmlToMetrics ==
  /\ xpc = "json"
  /\ metrics_data' = xml_to_metrics(xml_text, EP_doc, HOST_doc)
  /\ xpc' = "metrics"
  /\ UNCHANGED <<xml_text, result>>
  /\ UNCHANGED <<pollVars, runVars, substVars, sent>>

vars == <<xmlVars, pollVars, runVars, substVars, sent>>

\* the normaliser applied to every generated document
NextXml == XmlToJson \/ XmlToMetrics
SpecXml == InitXml /\ [][NextXml]_vars

\* single elements in every shape: texts that are integers, floats, neither
\* or blank, with and without attributes, over children that repeat a path
T_neg  == <<"-", "3">>
T_half == <<"+", ".", "5">>
T_5dot == <<"5", ".">>
T_1x   == <<"1", "x">>
T_3dot == <<"1", ".", "2", ".", "3">>
T_dash == <<"-">>
ElementTexts ==
  {<<>>, T_ws, T_1, T_pad, T_neg, T_15, T_half, T_5dot, T_x, T_1x, T_3dot, T_dash}
ElementAttribs ==
  {<<>>, << <<"id", T_2>> >>, << <<"id", T_x>>, <<"n", T_15>> >>}
C_two   == Elem("c", <<>>, <<>>, <<Leaf("a", T_2)>>)
C_seven == Elem("c", <<>>, T_1, <<Leaf("a", T_pad)>>)
ElementChildren == {Leaf("a", T_1), Leaf("a", T_15), Leaf("a", T_x), C_two, C_seven}
Elements ==
  { Elem("r", attrib, text, children) :
      attrib \in ElementAttribs, text \in ElementTexts,
      children \in SeqsUpTo(ElementChildren, MaxChildren) }

InitElement ==
  /\ xpc = "input"
  /\ xml_text \in {XmlText(root) : root \in Elements}
  /\ result = JNull
  /\ metrics_data = <<>>
  /\ call = CallStart(HOST_dev)
  /\ served = <<>>
  /\ fault = NoFault
  /\ hosts = <<>>
  /\ api_endpoints = <<>>
  /\ index_type = "events"
  /\ worker = <<>>
  /\ sink = <<>>
  /\ trace = <<>>
  /\ tally = Tally0
  /\ collected = {}
  /\ ctrl = "done"
  /\ url_template = <<>>
  /\ variables = <<>>
  /\ api_url = None
  /\ sent = NoRequests

\* the normaliser applied to every such element as the document
SpecElement == InitElement /\ [][NextXml]_vars

\* one call of the job-polling strategy against every device behaviour
InitPoll ==
  /\ xpc = "idle"
  /\ xml_text = Garbage
  /\ result = JNull
  /\ metrics_data = <<>>
  /\ call = CallStart(HOST_dev)
  /\ served = <<>>
  /\ fault = NoFault
  /\ hosts = <<>>
  /\ api_endpoints = <<>>
  /\ index_type = "events"
  /\ worker = <<>>
  /\ sink = <<>>
  /\ trace = <<>>
  /\ tally = Tally0
  /\ collected = {}
  /\ ctrl = "done"
  /\ url_template = <<>>
  /\ variables = <<>>
  /\ api_url = None
  /\ sent = NoRequests

NextPoll ==
  \/ (Submit /\ UNCHANGED <<xmlVars, runVars, substVars, sent>>)
  \/ (SubmitTransportError /\ UNCHANGED <<xmlVars, runVars, substVars, sent>>)
  \/ (SubmitMalformed /\ UNCHANGED <<xmlVars, runVars, substVars, sent>>)
  \/ (PollFinished /\ UNCHANGED <<xmlVars, runVars, substVars, sent>>)
  \/ (PollNotFinished /\ UNCHANGED <<xmlVars, runVars, substVars, sent>>)
  \/ (PollTransportError /\ UNCHANGED <<xmlVars, runVars, substVars, sent>>)
  \/ (PollMalformed /\ UNCHANGED <<xmlVars, runVars, substVars, sent>>)
SpecPoll == InitPoll /\ [][NextPoll]_vars

\* the text of templates, piece by piece: a braced placeholder, the
\* escape "$$", or text without a placeholder
Braced(name) == [kind |-> "braced", name |-> name, text |-> <<"$", "{">> \o name \o <<"}">>]
Plain(text)  == [kind |-> "plain",  name |-> <<>>, text |-> text]
Escape       == [kind |-> "escape", name |-> <<>>, text |-> <<"$", "$">>]

K_host    == <<"h","o","s","t">>
K_apikey  == <<"a","p","i","k","e","y">>
K_api_key == <<"a","p","i","_","k","e","y">>
K_other   == <<"o","t","h","e","r">>
V_host    == <<"1","0",".","0",".","0",".","5">>
V_apikey  == <<"A","B","C">>

Pieces ==
  { Braced(K_host), Braced(K_apikey), Braced(K_other), Escape,
    Plain(<<"/">>), Plain(<<"k", "=">>), Plain(<<"$", "/">>), Plain(<<"{", "h", "}">>) }

\* https://${host}/api/?key=${apikey}
ExamplePieces ==
  <<Plain(<<"h","t","t","p","s",":","/","/">>), Braced(K_host),
    Plain(<<"/","a","p","i","/","?","k","e","y","=">>), Braced(K_apikey)>>

TemplateOf(pieces) == Flatten([i \in 1..Len(pieces) |-> pieces[i].text])

\* the mapping of lines 225-229, and mappings that lack some of its keys
VariableMaps ==
  { << <<K_host, V_host>>, <<K_apikey, V_apikey>>, <<K_api_key, V_apikey>> >>,
    << <<K_host, V_host>>, <<K_apikey, V_apikey>> >>,
    << <<K_apikey, V_apikey>> >>,
    <<>> }

\* one call of substitute_variables on every template and mapping
InitSubst ==
  /\ xpc = "idle"
  /\ xml_text = Garbage
  /\ result = JNull
  /\ metrics_data = <<>>
  /\ call = CallStart(HOST_dev)
  /\ served = <<>>
  /\ fault = NoFault
  /\ hosts = <<>>
  /\ api_endpoints = <<>>
  /\ index_type = "events"
  /\ worker = <<>>
  /\ sink = <<>>
  /\ trace = <<>>
  /\ tally = Tally0
  /\ collected = {}
  /\ ctrl = "done"
  /\ url_template \in SeqsUpTo(Pieces, MaxPieces) \cup {ExamplePieces}
  /\ variables \in VariableMaps
  /\ api_url = None
  /\ sent = NoRequests

\* line 232
Substitute ==
  /\ api_url = None
  /\ api_url' = Found(substitute_variables(TemplateOf(url_template), variables))
  /\ UNCHANGED <<url_template, variables, sent>>
  /\ UNCHANGED <<xmlVars, pollVars, runVars>>

NextSubst == Substitute
SpecSubst == InitSubst /\ [][NextSubst]_vars

\* the failure an answer is, if it is one
FaultOf(resp, at, held) ==
  IF resp.http = "error" THEN [kind |-> "transport", at |-> at, held |-> held]
  ELSE [kind |-> "parse", at |-> at, held |-> held]

\* line 100: the submission request is made and answered
CountedSubmit ==
  /\ call.pc = "start"
  /\ \E resp \in {HttpError, HttpOk(Garbage)}
                   \cup {HttpOk(SubmitDoc(n)) : n \in 0..MaxJobs} :
       /\ call' = SubmitStep(call, resp)
       /\ fault' = IF call'.pc = "raised" THEN FaultOf(resp, "submit", 0) ELSE fault
  /\ sent' = [submit |-> sent.submit + 1,
              status |-> [j \in 1..Len(call'.job_ids) |-> 0]]
  /\ served' = [j \in 1..Len(call'.job_ids) |-> JobRecord]

\* line 118: a status request is made; the job is reported finished
CountedFinished ==
  /\ call.pc = "polling"
  /\ \E entries \in {<<>>, <<E_high, E_low>>} :
       /\ call' = PollStep(call, Fin(entries))
       /\ served' = [served EXCEPT ![call.job] =
                       [waits |-> 0, fin |-> TRUE, entries |-> entries]]
  /\ sent' = [sent EXCEPT !.status[call.job] = @ + 1]
  /\ UNCHANGED fault

\* line 118: a status request is made; the answer has another status or none
CountedNotFinished ==
  /\ call.pc = "polling"
  /\ \E answer \in {StatusDoc(TRUE, status, <<>>) : status \in StatusTexts \ {S_FIN}}
                   \cup {StatusDoc(FALSE, <<>>, StrayEntries)} :
       call' = PollStep(call, HttpOk(answer))
  /\ sent' = [sent EXCEPT !.status[call.job] = @ + 1]
  /\ UNCHANGED <<served, fault>>

\* line 118: a status request is made and fails, in transport or in parsing
CountedFailure ==
  /\ call.pc = "polling"
  /\ \E resp \in {HttpError, HttpOk(Garbage)} :
       /\ call' = PollStep(call, resp)
       /\ fault' = FaultOf(resp, "poll", Len(call.event_list))
  /\ sent' = [sent EXCEPT !.status[call.job] = @ + 1]
  /\ UNCHANGED served

\* one call of the job-polling strategy with its requests counted
InitCount ==
  /\ xpc = "idle"
  /\ xml_text = Garbage
  /\ result = JNull
  /\ metrics_data = <<>>
  /\ call = CallStart(HOST_dev)
  /\ served = <<>>
  /\ fault = NoFault
  /\ hosts = <<>>
  /\ api_endpoints = <<>>
  /\ index_type = "events"
  /\ worker = <<>>
  /\ sink = <<>>
  /\ trace = <<>>
  /\ tally = Tally0
  /\ collected = {}
  /\ ctrl = "done"
  /\ url_template = <<>>
  /\ variables = <<>>
  /\ api_url = None
  /\ sent = NoRequests

NextCount ==
  \/ (CountedFailure /\ UNCHANGED <<xmlVars, runVars, substVars>>)
  \/ (CountedSubmit /\ UNCHANGED <<xmlVars, runVars, substVars>>)
  \/ (CountedFinished /\ UNCHANGED <<xmlVars, runVars, substVars>>)
  \/ (CountedNotFinished /\ UNCHANGED <<xmlVars, runVars, substVars>>)

\* requests.get returns or raises within its timeout of 30 s and
\* time.sleep(0.05) returns: the call always takes its next step
SpecCount == InitCount /\ [][NextCount]_vars /\ WF_vars(NextCount)

\* a run over one target and every list of endpoint names
InitHost ==
  /\ xpc = "idle"
  /\ xml_text = Garbage
  /\ result = JNull
  /\ metrics_data = <<>>
  /\ call = CallStart(HOST_dev)
  /\ served = <<>>
  /\ fault = NoFault
  /\ hosts = <<HostAddr(1)>>
  /\ api_endpoints \in SeqsUpTo(EndpointNames, MaxEndpoints)
  /\ index_type \in {"events", "metrics"}
  /\ worker = <<WorkerStart>>
  /\ sink = << <<>> >>
  /\ trace = << <<>> >>
  /\ tally = Tally0
  /\ collected = {}
  /\ ctrl = "collecting"
  /\ url_template = <<>>
  /\ variables = <<>>
  /\ api_url = None
  /\ sent = NoRequests

NextRun ==
  \/ \E h \in Targets : EndpointStep(h) /\ UNCHANGED <<xmlVars, pollVars, substVars, sent>>
  \/ \E h \in Targets : WorkerReturn(h) /\ UNCHANGED <<xmlVars, pollVars, substVars, sent>>
  \/ \E h \in Targets : HostError(h) /\ UNCHANGED <<xmlVars, pollVars, substVars, sent>>
  \/ \E h \in Targets : Collect(h) /\ UNCHANGED <<xmlVars, pollVars, substVars, sent>>
  \/ (Summary /\ UNCHANGED <<xmlVars, pollVars, substVars, sent>>)
SpecHost == InitHost /\ [][NextRun]_vars

\* a run fanned out over several targets, one endpoint each: the endpoint
\* list and the index type of the input stanza
FanoutConfigs ==
  {<<(<<N_g>>), "events">>, <<(<<N_g>>), "metrics">>, <<(<<N_t>>), "metrics">>}

Init ==
  /\ xpc = "idle"
  /\ xml_text = Garbage
  /\ result = JNull
  /\ metrics_data = <<>>
  /\ call = CallStart(HOST_dev)
  /\ served = <<>>
  /\ fault = NoFault
  /\ hosts \in {[j \in 1..n |-> HostAddr(j)] : n \in 1..NumHosts}
  /\ \E cfg \in FanoutConfigs : api_endpoints = cfg[1] /\ index_type = cfg[2]
  /\ worker = [h \in 1..Len(hosts) |-> WorkerStart]
  /\ sink = [h \in 1..Len(hosts) |-> <<>>]
  /\ trace = [h \in 1..Len(hosts) |-> <<>>]
  /\ tally = Tally0
  /\ collected = {}
  /\ ctrl = "collecting"
  /\ url_template = <<>>
  /\ variables = <<>>
  /\ api_url = None
  /\ sent = NoRequests

Next == NextRun
Spec == Init /\ [][Next]_vars

(***************************************************************************)
(* Properties of substitute_variables (SpecSubst)                          *)
(***************************************************************************)
\* what a piece of the template is to become
Resolved(piece) ==
  IF piece.kind = "braced" /\ DictHas(variables, piece.name)
    THEN DictGet(variables, piece.name)
  ELSE IF piece.kind = "escape" THEN <<"$">>
  ELSE piece.text

\* C15: the call returns a text for every template and mapping (a missing
\* key raises nothing), in which every ${name} whose name is a key of the
\* mapping is replaced by its value and every ${name} whose name is not a
\* key stands unchanged; https://${host}/api/?key=${apikey} with host
\* 10.0.0.5 and apikey ABC gives https://10.0.0.5/api/?key=ABC.
Thm_C15 ==
  api_url # None =>
    /\ api_url.found
    /\ api_url.text = Flatten([i \in 1..Len(url_template) |-> Resolved(url_template[i])])
    /\ (url_template = ExamplePieces /\ DictHas(variables, K_host)
          /\ DictHas(variables, K_apikey)) =>
         api_url.text = <<"h","t","t","p","s",":","/","/","1","0",".","0",".","0",".","5","/","a","p","i","/","?","k","e","y","=","A","B","C">>

Wit_C15 ==
  /\ api_url # None
  /\ url_template = <<Braced(K_host), Braced(K_other), Braced(K_apikey)>>
  /\ variables = << <<K_apikey, V_apikey>> >>
  /\ api_url.text = Braced(K_host).text \o Braced(K_other).text \o V_apikey

(***************************************************************************)
(* Properties of the job-polling strategy (SpecPoll)                       *)
(***************************************************************************)
EqIgnoreCase(a, b) ==
  Len(a) = Len(b) /\ \A i \in 1..Len(a) : LowerChar(a[i]) = LowerChar(b[i])

\* the entries the filter is to keep: a non-empty logid and a severity that
\* reads high or critical in any case
Wanted(d) ==
  /\ d.hasId /\ d.logid # <<>>
  /\ d.hasSev /\ (EqIgnoreCase(d.sev, S_high) \/ EqIgnoreCase(d.sev, S_critical))

WantedEvents(entries) ==
  LET w == SelectSeq(entries, Wanted)
  IN [j \in 1..Len(w) |-> EventOf(EntryElem(w[j]), HOST_dev)]

Contribution(k) == IF served[k].fin THEN WantedEvents(served[k].entries) ELSE <<>>

\* C1: when no exchange fails, the call returns normally, and what it
\* returns is the kept entries of the finished jobs, job after job; a job
\* that was never reported finished had all its 11 polls and adds nothing.
Thm_C1 ==
  (call.pc \in {"returned", "raised"} /\ fault = NoFault) =>
    /\ call.pc = "returned"
    /\ call.event_list = Flatten([k \in 1..Len(served) |-> Contribution(k)])
    /\ \A k \in 1..Len(served) :
         ~served[k].fin => served[k].waits = PollAttempts /\ Contribution(k) = <<>>

Wit_C1 ==
  /\ call.pc = "returned" /\ fault = NoFault /\ Len(served) = 2
  /\ ~served[1].fin /\ served[1].waits = PollAttempts
  /\ served[2].fin /\ Len(call.event_list) = 2

ServedEntries ==
  UNION {Range(served[k].entries) : k \in {j \in 1..Len(served) : served[j].fin}}

\* C4: of the entries of finished jobs, the call holds a record for exactly
\* those with a non-empty logid and severity high or critical in any case;
\* [High/1, Low/2] gives the single record of logid 1.
Thm_C4 ==
  call.pc # "raised" =>
    /\ \A d \in ServedEntries :
         (EventOf(EntryElem(d), HOST_dev) \in Range(call.event_list)) <=> Wanted(d)
    /\ Len(call.event_list) =
         SeqSum([k \in 1..Len(served) |->
                   Len(SelectSeq(served[k].entries, Wanted))])
    /\ \A d \in ServedEntries :
         (~d.hasSev \/ ~d.hasId \/ d.logid = <<>>
            \/ Lower(d.sev) \in {<<"l","o","w">>, <<"m","e","d","i","u","m">>,
                  <<"i","n","f","o","r","m","a","t","i","o","n","a","l">>})
           => EventOf(EntryElem(d), HOST_dev) \notin Range(call.event_list)

Wit_C4 ==
  /\ call.pc = "returned" /\ Len(served) = 1 /\ served[1].fin
  /\ served[1].entries =
       <<Entry(TRUE, <<"1">>, TRUE, <<"H","i","g","h">>),
         Entry(TRUE, <<"2">>, TRUE, <<"L","o","w">>)>>
  /\ call.event_list =
       <<EventOf(EntryElem(Entry(TRUE, <<"1">>, TRUE, <<"H","i","g","h">>)), HOST_dev)>>

\* C7 as stated: a transport failure on a status poll uses up an attempt
\* and the call goes on polling or returns what it has.
Orig_C7 ==
  (fault.kind = "transport" /\ fault.at = "poll") => call.pc \in {"polling", "returned"}

\* C7 amended: a transport failure, on a status poll as on the submission,
\* is not retried: the call ends at once by raising RequestException and
\* hands back none of the records it had collected.
Thm_C7 ==
  fault.kind = "transport" =>
    /\ call.pc = "raised" /\ call.exc = "RequestException"
    /\ call.event_list = <<>>

Wit_C7 ==
  /\ fault.kind = "transport" /\ fault.at = "poll" /\ fault.held > 0
  /\ call.pc = "raised"
  /\ \E k \in 1..Len(served) : served[k].fin

\* C8 as stated: a malformed submission or status document does not leave
\* the call as an exception.
Orig_C8 ==
  fault.kind = "parse" => call.pc # "raised"

\* C8 amended: a malformed submission or status document is logged and
\* re-raised: the call ends by raising ParseError and returns no records.
Thm_C8 ==
  fault.kind = "parse" =>
    /\ call.pc = "raised" /\ call.exc = "ParseError"
    /\ call.event_list = <<>>

Wit_C8 ==
  /\ fault.kind = "parse" /\ fault.at = "submit"
  /\ call.pc = "raised" /\ call.exc = "ParseError"

\* the records job k is to have added: its kept entries in document order
Block(k) ==
  IF served[k].fin
    THEN LET kept == SelectSeq(served[k].entries, Wanted)
         IN [i \in 1..Len(kept) |-> EventOf(EntryElem(kept[i]), HOST_dev)]
    ELSE <<>>

\* where the records of job k begin in the list
BlockStart(k) == SeqSum([j \in 1..(k - 1) |-> Len(Block(j))])

\* C19: the records are in the order of the job identifiers of the
\* submission response, job after job, and within a job in the order of
\* its entries in the result document.
Thm_C19 ==
  call.pc \in {"polling", "returned"} =>
    /\ call.job_ids = [j \in 1..Len(served) |-> <<Digits[j + 1]>>]
    /\ Len(call.event_list) = BlockStart(Len(served) + 1)
    /\ \A k \in 1..Len(served) : \A i \in 1..Len(Block(k)) :
         call.event_list[BlockStart(k) + i] = Block(k)[i]

Wit_C19 ==
  /\ call.pc = "returned" /\ Len(served) = 2
  /\ served[1].fin /\ served[1].entries = <<E_crit, E_high>>
  /\ served[2].fin /\ served[2].entries = <<E_high>>
  /\ call.event_list =
       <<EventOf(EntryElem(E_crit), HOST_dev), EventOf(EntryElem(E_high), HOST_dev),
         EventOf(EntryElem(E_high), HOST_dev)>>

\* the requests.get calls the call has made
TotalSent == sent.submit + SeqSum(sent.status)

\* C16, the bound: one submission; at most 11 status requests per job, so
\* at most 1 + 11*N requests for N job identifiers; an answer that does not
\* say FIN (another status, or no status field) leaves the job unfinished:
\* it adds no record, and a job that never said FIN was asked all 11 times
\* before the call returned.
Bound_C16 ==
  /\ sent.submit <= 1
  /\ \A k \in 1..Len(sent.status) : sent.status[k] <= PollAttempts
  /\ TotalSent <= 1 + PollAttempts * Len(sent.status)
  /\ call.pc # "raised" =>
       call.event_list = Flatten([k \in 1..Len(served) |-> Contribution(k)])
  /\ call.pc = "returned" =>
       \A k \in 1..Len(served) : ~served[k].fin => sent.status[k] = PollAttempts

\* C16: the bound holds throughout, and every call ends: it returns or
\* raises, also when no job is ever reported finished.
Thm_C16 == []Bound_C16 /\ <>(call.pc \in {"returned", "raised"})

Wit_C16 ==
  /\ call.pc = "returned" /\ Len(sent.status) = MaxJobs
  /\ \A k \in 1..Len(served) : ~served[k].fin /\ sent.status[k] = PollAttempts
  /\ TotalSent = 1 + PollAttempts * MaxJobs

\* where a job stands, from its status requests and whether it said FIN:
\* 0 PENDING, 1 RUNNING, 2 FINISHED or TIMED_OUT
JobRank(asked, fin) ==
  IF fin \/ asked = PollAttempts THEN 2 ELSE IF asked > 0 THEN 1 ELSE 0

Terminal(k) == JobRank(sent.status[k], served[k].fin) = 2

IsPrefix(a, b) == Len(a) <= Len(b) /\ SubSeq(b, 1, Len(a)) = a

\* the jobs are polled one after the other
Order_C17 ==
  /\ \A k \in 1..Len(sent.status) :
       sent.status[k] > 0 => \A j \in 1..(k - 1) : Terminal(j)
  /\ call.pc = "polling" =>
       /\ \A j \in 1..(call.job - 1) : Terminal(j)
       /\ ~Terminal(call.job)

\* what one step may do to the jobs and to the records collected
Step_C17 ==
  /\ \A k \in 1..Len(sent.status) :
       /\ JobRank(sent'.status[k], served'[k].fin) >= JobRank(sent.status[k], served[k].fin)
       /\ Terminal(k) => sent'.status[k] = sent.status[k] /\ served'[k] = served[k]
       /\ sent'.status[k] # sent.status[k] =>
            k = call.job /\ sent'.status[k] = sent.status[k] + 1
  /\ call'.pc # "raised" =>
       /\ IsPrefix(call.event_list, call'.event_list)
       /\ call'.event_list # call.event_list =>
            /\ call.pc = "polling"
            /\ ~served[call.job].fin /\ served'[call.job].fin
            /\ call'.event_list =
                 call.event_list \o WantedEvents(served'[call.job].entries)

\* C17: a job only moves forward, from not yet asked to being asked to
\* finished or timed out; a finished or timed-out job gets no further
\* status request and what it added to the records stays as it is; records
\* are added only by the answer that says FIN, from that answer's entries;
\* job k+1 is asked only after job k is finished or timed out.
Thm_C17 == []Order_C17 /\ [][Step_C17]_vars

Wit_C17 ==
  /\ call.pc = "returned" /\ Len(sent.status) = 2
  /\ ~served[1].fin /\ sent.status[1] = PollAttempts
  /\ served[2].fin /\ sent.status[2] = 3
  /\ served[2].entries = <<E_high, E_low>>
  /\ call.event_list = WantedEvents(<<E_high, E_low>>)

(***************************************************************************)
(* Properties of the normaliser (SpecXml)                                  *)
(***************************************************************************)
\* the positions of the children carrying a tag, in document order
TagPositions(children, tag) ==
  SelectSeq([i \in 1..Len(children) |-> i], LAMBDA i : children[i].tag = tag)

RECURSIVE Promoted(_, _)
\* value is what the conversion gave for element: every repeated child tag
\* holds a list of its converted children in order, every single one is bare
Promoted(element, value) ==
  element.children # <<>> =>
    /\ value.k = "dict"
    /\ \A tag \in {c.tag : c \in Range(element.children)} :
         LET pos == TagPositions(element.children, tag)
             val == DictGet(value.v, tag)
         IN /\ DictHas(value.v, tag)
            /\ IF Len(pos) >= 2
                 THEN /\ val.k = "list"
                      /\ Len(val.v) = Len(pos)
                      /\ \A j \in 1..Len(pos) :
                           /\ val.v[j] = element_to_dict(element.children[pos[j]])
                           /\ Promoted(element.children[pos[j]], val.v[j])
                 ELSE /\ val.k # "list"
                      /\ val = element_to_dict(element.children[pos[1]])
                      /\ Promoted(element.children[pos[1]], val)

ConvertedRoot == DictGet(DictGet(result.v, "data").v, ET_fromstring(xml_text).tag)

Doc_aa ==
  XmlText(Elem("r", <<>>, <<>>, <<Leaf("a", T_1), Leaf("a", T_2)>>))

\* C10: in the converted document, under every parent, a tag that occurs
\* n >= 2 times holds a list of exactly its n converted children in document
\* order and a tag that occurs once holds the bare value;
\* <r><a>1</a><a>2</a></r> gives {"r": {"a": [1, 2]}}.
Thm_C10 ==
  (xpc # "input" /\ ~ParseFails(xml_text)) =>
    /\ Promoted(ET_fromstring(xml_text), ConvertedRoot)
    /\ xml_text = Doc_aa =>
         ConvertedRoot = JDict(<< <<"a", JList(<<JInt(1), JInt(2)>>)>> >>)

Wit_C10 ==
  /\ xpc = "json"
  /\ Len(ET_fromstring(xml_text).children) = 3
  /\ \A i \in 1..3 : ET_fromstring(xml_text).children[i].tag = "a"
  /\ DictGet(ConvertedRoot.v, "a").k = "list"
  /\ Len(DictGet(ConvertedRoot.v, "a").v) = 3

RECURSIVE PathTexts(_, _)
\* every element below an element, as <<dotted path, text>>
PathTexts(element, parent_path) ==
  UNION { LET path == IF parent_path # "" THEN parent_path \o "." \o c.tag ELSE c.tag
          IN {<<path, c.text>>} \cup PathTexts(c, path) : c \in Range(element.children) }

\* the dotted paths at which some element has trimmed text that is a float
NumericPaths(root) ==
  {pt[1] : pt \in {q \in PathTexts(root, "") : ParsesFloat(Strip(q[2]))}}

\* C11: the metric keys of the output are exactly the dotted paths (root
\* tag left out) at which some element has trimmed text that parses as a
\* float, each holding the float of such an element; an element with empty
\* or non-numeric text gives no key of its own but its children are visited.
Thm_C11 ==
  (xpc = "metrics" /\ ~ParseFails(xml_text)) =>
    LET root == ET_fromstring(xml_text)
    IN /\ metrics_data[1][1] = "endpoint" /\ metrics_data[2][1] = "host"
       /\ {metrics_data[i][1] : i \in 3..Len(metrics_data)}
            = {"metric_name:" \o p : p \in NumericPaths(root)}
       /\ \A i \in 3..Len(metrics_data) :
            \E pt \in PathTexts(root, "") :
              /\ metrics_data[i][1] = "metric_name:" \o pt[1]
              /\ ParsesFloat(Strip(pt[2]))
              /\ metrics_data[i][2] = JFloat(FloatOf(Strip(pt[2])))

Wit_C11 ==
  /\ xpc = "metrics" /\ ~ParseFails(xml_text)
  /\ <<"a", T_ws>> \in PathTexts(ET_fromstring(xml_text), "")
  /\ <<"b", T_x>> \in PathTexts(ET_fromstring(xml_text), "")
  /\ ~DictHas(metrics_data, "metric_name:a")
  /\ ~DictHas(metrics_data, "metric_name:b")
  /\ DictGet(metrics_data, "metric_name:a.b") = JFloat(<<1, 0>>)

\* an element with no attributes, no children and no non-blank text
IsEmptyElem(element) ==
  element.attrib = <<>> /\ element.children = <<>> /\ Strip(element.text) = <<>>

RootChildren == ET_fromstring(xml_text).children

\* C14 as stated: an empty child leaves no trace in its parent: its tag is
\* no key of the parent's mapping, or the key holds neither null nor a
\* sequence with a null in it.
Orig_C14 ==
  (xpc # "input" /\ ~ParseFails(xml_text)) =>
    \A i \in 1..Len(RootChildren) :
      IsEmptyElem(RootChildren[i]) =>
        \/ ~DictHas(ConvertedRoot.v, RootChildren[i].tag)
        \/ LET val == DictGet(ConvertedRoot.v, RootChildren[i].tag)
           IN val # JNull /\ (val.k = "list" => JNull \notin Range(val.v))

\* C14 amended: an empty child converts to null and is kept: its tag is a
\* key of the parent's mapping, holding null when the tag occurs once and a
\* sequence with null at the child's place among its namesakes otherwise.
Thm_C14 ==
  (xpc # "input" /\ ~ParseFails(xml_text)) =>
    \A i \in 1..Len(RootChildren) :
      IsEmptyElem(RootChildren[i]) =>
        LET tag == RootChildren[i].tag
            pos == TagPositions(RootChildren, tag)
            val == DictGet(ConvertedRoot.v, tag)
        IN /\ ConvertedRoot.k = "dict" /\ DictHas(ConvertedRoot.v, tag)
           /\ IF Len(pos) = 1 THEN val = JNull
              ELSE /\ val.k = "list" /\ Len(val.v) = Len(pos)
                   /\ val.v[CHOOSE r \in 1..Len(pos) : pos[r] = i] = JNull

Wit_C14 ==
  /\ xpc = "json"
  /\ RootChildren = <<Leaf("a", <<>>), Leaf("a", T_1), Leaf("b", <<>>)>>
  /\ ConvertedRoot =
       JDict(<< <<"a", JList(<<JNull, JInt(1)>>)>>, <<"b", JNull>> >>)

\* what int() and float() of Python give for the generated texts
Parsed ==
  { <<T_1, JInt(1)>>, <<T_pad, JInt(7)>>, <<T_neg, JInt(0 - 3)>>,
    <<T_15, JFloat(<<15, 1>>)>>, <<T_half, JFloat(<<5, 1>>)>>,
    <<T_5dot, JFloat(<<5, 0>>)>>,
    <<T_x, JStr(T_x)>>, <<T_1x, JStr(T_1x)>>, <<T_3dot, JStr(T_3dot)>>,
    <<T_dash, JStr(T_dash)>> }

\* the keys a converted element has besides "#text"
NodeKeys(element) ==
  {"@" \o element.attrib[i][1] : i \in 1..Len(element.attrib)}
    \cup {c.tag : c \in Range(element.children)}

\* C21: an element with no attributes, no children and non-blank text
\* converts to the integer of its trimmed text if that is one, else to its
\* float if that is one, else to the trimmed text; an element with
\* attributes or children and non-blank text converts to a mapping that
\* holds the trimmed text as a string under "#text" beside one "@" key per
\* attribute (the attribute's text) and one key per child tag.
Thm_C21 ==
  xpc # "input" =>
    LET root == ET_fromstring(xml_text)
        text == Strip(root.text)
        val  == ConvertedRoot
    IN text # <<>> =>
         IF root.attrib = <<>> /\ root.children = <<>>
           THEN /\ val.k \in {"int", "float", "str"}
                /\ val.k = "int" <=> ParsesInt(text)
                /\ val.k = "float" <=> (~ParsesInt(text) /\ ParsesFloat(text))
                /\ val.k = "str" => val.v = text
                /\ <<root.text, val>> \in Parsed
           ELSE /\ val.k = "dict"
                /\ {val.v[i][1] : i \in 1..Len(val.v)} = NodeKeys(root) \cup {"#text"}
                /\ DictGet(val.v, "#text") = JStr(text)
                /\ \A i \in 1..Len(root.attrib) :
                     DictGet(val.v, "@" \o root.attrib[i][1]) = JStr(root.attrib[i][2])

\* <r id="x" n="1.5"> 7 <a>1.5</a></r>: the padded integer text is kept as
\* the string "7" beside the attributes, and the child, a bare leaf, is
\* coerced to the float 1.5
Wit_C21 ==
  /\ xpc = "json"
  /\ ET_fromstring(xml_text) =
       Elem("r", << <<"id", T_x>>, <<"n", T_15>> >>, T_pad, <<Leaf("a", T_15)>>)
  /\ ConvertedRoot =
       JDict(<< <<"@id", JStr(T_x)>>, <<"@n", JStr(T_15)>>,
                <<"a", JFloat(<<15, 1>>)>>, <<"#text", JStr(<<"7">>)>> >>)

RECURSIVE PathSeq(_, _)
\* the elements below an element in depth-first document order, each as
\* <<dotted path, text>>
PathSeq(children, parent_path) ==
  IF children = <<>> THEN <<>>
  ELSE LET c    == Head(children)
           path == IF parent_path # "" THEN parent_path \o "." \o c.tag ELSE c.tag
       IN <<(<<path, c.text>>)>> \o PathSeq(c.children, path)
            \o PathSeq(Tail(children), parent_path)

\* the elements with numeric text, in that order
NumericElems(root) ==
  SelectSeq(PathSeq(root.children, ""), LAMBDA pt : ParsesFloat(Strip(pt[2])))

\* C23: the metric set holds one value per dotted path: its keys are
\* pairwise different, there are as many metrics as distinct paths with a
\* numeric element, and the value at a path is that of the last numeric
\* element with this path in depth-first document order.
Thm_C23 ==
  xpc = "metrics" =>
    LET num   == NumericElems(ET_fromstring(xml_text))
        paths == {num[i][1] : i \in 1..Len(num)}
    IN /\ \A i, j \in 1..Len(metrics_data) :
            metrics_data[i][1] = metrics_data[j][1] => i = j
       /\ Len(metrics_data) - 2 = Cardinality(paths)
       /\ \A i \in 1..Len(num) :
            (\A j \in (i + 1)..Len(num) : num[j][1] # num[i][1]) =>
              /\ DictHas(metrics_data, "metric_name:" \o num[i][1])
              /\ DictGet(metrics_data, "metric_name:" \o num[i][1])
                   = JFloat(FloatOf(Strip(num[i][2])))

\* <r><c><a>2</a></c><c>1<a> 7 </a></c><a>1.5</a></r>: four numeric
\* elements on three paths, c.a holding the value of the later one
Wit_C23 ==
  /\ xpc = "metrics"
  /\ ET_fromstring(xml_text).children = <<C_two, C_seven, Leaf("a", T_15)>>
  /\ Len(NumericElems(ET_fromstring(xml_text))) = 4
  /\ metrics_data = << <<"endpoint", JStr(EP_doc)>>, <<"host", JStr(HOST_doc)>>,
                        <<"metric_name:c.a", JFloat(<<7, 0>>)>>,
                        <<"metric_name:c", JFloat(<<1, 0>>)>>,
                        <<"metric_name:a", JFloat(<<15, 1>>)>> >>

(***************************************************************************)
(* Properties of the orchestrator and the fan-out (SpecHost, Spec)         *)
(***************************************************************************)
\* the targets whose worker met an exception outside the per-endpoint try
FailedTargets == {h \in Targets : worker[h].hostErr}

\* C2: with H targets of which f raise at host scope, the finished run
\* reports f failed and H - f successful hosts, and no exception ever leaves
\* the result loop of the controller.
Thm_C2 ==
  /\ ctrl # "raised" /\ ~tally.exc
  /\ ctrl = "done" =>
       /\ tally.failed_hosts = Cardinality(FailedTargets)
       /\ tally.successful_hosts = Len(hosts) - Cardinality(FailedTargets)
       /\ tally.successful_hosts + tally.failed_hosts = Len(hosts)

Wit_C2 ==
  /\ ctrl = "done" /\ Len(hosts) = 2
  /\ worker[1].pc = "raised"
  /\ worker[2].pc = "returned" /\ worker[2].ret.success
  /\ tally.failed_hosts = 1 /\ tally.successful_hosts = 1

\* C3: an endpoint that raises does not end the loop: the worker visits the
\* names one by one in list order, goes on to the next name after any
\* outcome, keeps what it had counted, and returns only after the last name.
Thm_C3 ==
  \A h \in Targets :
    /\ \A j \in 1..Len(trace[h]) : trace[h][j].ep = j
    /\ Len(trace[h]) <= Len(api_endpoints)
    /\ worker[h].total_events = SeqSum([j \in 1..Len(trace[h]) |-> trace[h][j].counted])
    /\ ~worker[h].hostErr =>
         /\ worker[h].ep = Len(trace[h]) + 1
         /\ worker[h].pc = "returned" => Len(trace[h]) = Len(api_endpoints)

Wit_C3 ==
  /\ worker[1].pc = "returned" /\ worker[1].ret.success
  /\ Len(trace[1]) = 2
  /\ trace[1][1].status = "raised"
  /\ trace[1][2].status = "done" /\ trace[1][2].wrote > 0

\* the metrics of a MetricSet: every key but the two dimensions
MetricKeys(md) == {i \in 1..Len(md) : md[i][1] \notin {"endpoint", "host"}}

DocsWithMetrics(docs) ==
  SelectSeq(docs, LAMBDA text : MetricKeys(xml_to_metrics(text, <<>>, <<>>)) # {})

\* C5: in metric mode no event holding only endpoint and host reaches the
\* sink; an endpoint ingested to the end wrote one event per document with
\* at least one metric and none for the others, and total_events grew by
\* one for every event written.
Thm_C5 ==
  index_type = "metrics" =>
    \A h \in Targets :
      /\ \A i \in 1..Len(sink[h]) : MetricKeys(sink[h][i].data.body.v) # {}
      /\ worker[h].total_events = Len(sink[h])
      /\ \A j \in 1..Len(trace[h]) :
           /\ trace[h][j].counted = trace[h][j].wrote
           /\ trace[h][j].status = "done" =>
                /\ trace[h][j].wrote = Len(DocsWithMetrics(trace[h][j].docs))
                /\ trace[h][j].calls = trace[h][j].wrote

Wit_C5 ==
  /\ index_type = "metrics" /\ Len(trace[1]) = 2
  /\ trace[1][1].status = "done" /\ trace[1][1].docs = <<Doc_n>> /\ trace[1][1].wrote = 0
  /\ trace[1][2].status = "done" /\ trace[1][2].docs = <<Doc_m>> /\ trace[1][2].wrote = 1
  /\ Len(sink[1]) = 1

\* the events in the sink of target h before those of its j-th endpoint
SinkOffset(h, j) == SeqSum([i \in 1..(j - 1) |-> trace[h][i].wrote])

\* C12: in record mode an endpoint ingested to the end wrote exactly one
\* event per document its strategy returned, in order, each naming the
\* endpoint and the host; the event of a document that does not parse holds
\* an error text and no data, the event of one that parses holds data and
\* no error; the documents and endpoints after it are processed all the same.
Thm_C12 ==
  index_type = "events" =>
    \A h \in Targets : \A j \in 1..Len(trace[h]) :
      trace[h][j].status = "done" =>
        /\ trace[h][j].wrote = Len(trace[h][j].docs)
        /\ trace[h][j].calls = Len(trace[h][j].docs)
        /\ \A d \in 1..Len(trace[h][j].docs) :
             LET ev  == sink[h][SinkOffset(h, j) + d]
                 rec == ev.data.body.v
             IN /\ ev.data.form = "json"
                /\ DictGet(rec, "endpoint") = JStr(Strip(api_endpoints[j]))
                /\ DictGet(rec, "host") = JStr(hosts[h])
                /\ IF ParseFails(trace[h][j].docs[d])
                     THEN /\ DictHas(rec, "error") /\ DictGet(rec, "error").k = "str"
                          /\ DictGet(rec, "error").v # <<>>
                          /\ ~DictHas(rec, "data")
                     ELSE DictHas(rec, "data") /\ ~DictHas(rec, "error")

Wit_C12 ==
  /\ index_type = "events" /\ Len(trace[1]) = 2 /\ Len(sink[1]) = 2
  /\ trace[1][1].status = "done" /\ trace[1][1].docs = <<Garbage>>
  /\ DictHas(sink[1][1].data.body.v, "error")
  /\ trace[1][2].status = "done" /\ trace[1][2].docs = <<Doc_m>>
  /\ DictHas(sink[1][2].data.body.v, "data")

\* an endpoint name that is blank, has no stanza, or names no known strategy
Misconfigured(raw_name) ==
  \/ Strip(raw_name) = <<>>
  \/ ~HasConfig(Strip(raw_name))
  \/ ScriptType(Strip(raw_name)) \notin
       {"GET_api_generic_xml_output", "custom_GET_api_threat_traffic"}

\* C13: an endpoint whose name is blank, whose configuration is missing or
\* whose script_type is unknown makes no HTTP request, writes nothing and
\* counts nothing; the endpoints after it are visited, and a worker that
\* met nothing but such errors returns success.
Thm_C13 ==
  \A h \in Targets :
    /\ \A j \in 1..Len(trace[h]) :
         Misconfigured(api_endpoints[j]) =>
           /\ trace[h][j].status \in {"blank", "raised", "unknown"}
           /\ trace[h][j].requests = 0
           /\ trace[h][j].calls = 0 /\ trace[h][j].wrote = 0
           /\ trace[h][j].counted = 0
           /\ ~worker[h].hostErr => worker[h].ep > j
    /\ (worker[h].pc = "returned" /\ ~worker[h].hostErr) =>
         /\ worker[h].ret.success
         /\ Len(trace[h]) = Len(api_endpoints)
         /\ worker[h].ret.count =
              SeqSum([j \in 1..Len(trace[h]) |->
                        IF Misconfigured(api_endpoints[j]) THEN 0 ELSE trace[h][j].counted])

Wit_C13 ==
  /\ api_endpoints = <<N_u, N_g>> /\ index_type = "events"
  /\ worker[1].pc = "returned" /\ worker[1].ret.success /\ worker[1].ret.count = 1
  /\ trace[1][1].status = "unknown" /\ trace[1][1].requests = 0
  /\ trace[1][2].status = "done" /\ trace[1][2].requests = 1 /\ Len(sink[1]) = 1

\* the collected targets whose worker returned success
Succeeded == {h \in collected : worker[h].pc = "returned" /\ worker[h].ret.success}

\* every target has its one worker; the tally is a function of the set of
\* outcomes collected, whatever the order they arrived in
Tally_C18 ==
  /\ Len(worker) = Len(hosts) /\ ctrl # "raised"
  /\ collected \subseteq {h \in Targets : worker[h].pc # "running"}
  /\ tally.successful_hosts = Cardinality(Succeeded)
  /\ tally.failed_hosts = Cardinality(collected \ Succeeded)
  /\ tally.total_events_all_hosts =
       SeqSum([h \in 1..Len(hosts) |->
                 IF h \in Succeeded THEN worker[h].ret.count ELSE 0])
  /\ \A h \in Targets : \A i \in 1..Len(sink[h]) : sink[h][i].host = hosts[h]
  /\ ctrl = "done" => collected = Targets

\* a worker writes its own locals and its events in the sink, nothing of
\* another worker and not the tally; a worker that is done stays as it is;
\* the tally changes when the controller takes over one more outcome
Local_C18 ==
  /\ \A h \in Targets :
       /\ (worker'[h] # worker[h] \/ sink'[h] # sink[h] \/ trace'[h] # trace[h]) =>
            /\ \A g \in Targets \ {h} :
                 worker'[g] = worker[g] /\ sink'[g] = sink[g] /\ trace'[g] = trace[g]
            /\ tally' = tally /\ collected' = collected
       /\ worker[h].pc # "running" =>
            worker'[h] = worker[h] /\ sink'[h] = sink[h]
  /\ tally' # tally =>
       /\ worker' = worker /\ sink' = sink
       /\ \E h \in Targets \ collected : collected' = collected \cup {h}

\* The guards of a worker's steps (lines 211 and 306) read its own locals
\* and the endpoint list: whatever the other workers and the controller
\* have done, a running worker has its next step, and a finished worker
\* that was not collected finds the controller collecting.
Free_C18 ==
  \A h \in Targets :
    /\ worker[h].pc = "running" =>
         \/ /\ worker[h].ep <= Len(api_endpoints)
            /\ EnvsFor(api_endpoints[worker[h].ep]) # {}
         \/ worker[h].ep = Len(api_endpoints) + 1
    /\ h \notin collected => ctrl = "collecting"

\* C18: in every interleaving each target has one worker and adds one
\* outcome to the tally, the tally depends on the outcomes and not on their
\* order, workers share nothing but the sink, and no worker, failed or
\* slow, keeps another from its next step or from being collected.
Thm_C18 == []Tally_C18 /\ [][Local_C18]_vars /\ []Free_C18

Wit_C18 ==
  /\ Len(hosts) = 2 /\ collected = {2}
  /\ worker[2].pc = "raised" /\ tally.failed_hosts = 1
  /\ worker[1].pc = "running" /\ Len(trace[1]) = 1 /\ Len(sink[1]) = 1

\* C20: an endpoint of the generic strategy makes exactly one request; when
\* the strategy returns, it returns one document, the response body; when it
\* raises (no write_event call was reached), nothing is written for the
\* endpoint and nothing is added to total_events.
Thm_C20 ==
  \A h \in Targets : \A j \in 1..Len(trace[h]) :
    Strip(api_endpoints[j]) = N_g =>
      /\ trace[h][j].requests = 1
      /\ trace[h][j].status \in {"done", "raised"}
      /\ trace[h][j].status = "done" =>
           /\ Len(trace[h][j].docs) = 1
           /\ HttpOk(trace[h][j].docs[1]) \in GenericAnswers
      /\ (trace[h][j].status = "raised" /\ trace[h][j].calls = 0) =>
           /\ trace[h][j].wrote = 0 /\ trace[h][j].counted = 0
           /\ Len(sink[h]) = SeqSum([i \in 1..Len(trace[h]) |->
                                       IF i = j THEN 0 ELSE trace[h][i].wrote])

Wit_C20 ==
  /\ api_endpoints = <<N_g, N_g>> /\ index_type = "events" /\ Len(trace[1]) = 2
  /\ trace[1][1].status = "raised" /\ trace[1][1].calls = 0 /\ trace[1][1].requests = 1
  /\ trace[1][2].status = "done" /\ trace[1][2].docs = <<Doc_m>>
  /\ Len(sink[1]) = 1 /\ worker[1].total_events = 1

\* the targets whose worker ran its endpoint loop to the end
RanToEnd == {h \in Targets : worker[h].pc = "returned" /\ ~worker[h].hostErr}

\* the targets whose every endpoint raised (at least one endpoint)
AllRaised ==
  {h \in RanToEnd : /\ trace[h] # <<>>
                    /\ \A j \in 1..Len(trace[h]) : trace[h][j].status = "raised"}

\* C22: a worker whose endpoint loop runs to the end returns success with
\* its count however many endpoints raised; when every endpoint raised it
\* returns (host, 0, True) and is counted among the successful hosts; the
\* result (host, 0, False) comes only from an exception outside the
\* per-endpoint try.
Thm_C22 ==
  /\ \A h \in RanToEnd :
       /\ Len(trace[h]) = Len(api_endpoints)
       /\ worker[h].ret = HostResult(hosts[h], worker[h].total_events, TRUE)
  /\ \A h \in AllRaised : worker[h].ret = HostResult(hosts[h], 0, TRUE)
  /\ \A h \in Targets :
       (worker[h].pc = "returned" /\ ~worker[h].ret.success) =>
         /\ worker[h].hostErr
         /\ worker[h].ret = HostResult(hosts[h], 0, FALSE)
  /\ tally.successful_hosts = Cardinality(RanToEnd \cap collected)
  /\ tally.failed_hosts = Cardinality(collected \ RanToEnd)

Wit_C22 ==
  /\ ctrl = "done" /\ 1 \in AllRaised
  /\ Len(trace[1]) = 2
  /\ trace[1][1].requests > 0 /\ trace[1][2].calls > 0
  /\ worker[1].ret = HostResult(hosts[1], 0, TRUE)
  /\ tally.successful_hosts = 1 /\ tally.failed_hosts = 0

\* the projected fields of a kept entry, at the top of the payload or
\* under its "data" key
CarriesProjection(payload) ==
  \A key \in {"happenedOn", "severity", "source", "message"} :
    \/ DictHas(payload.v, key)
    \/ /\ DictHas(payload.v, "data")
       /\ DictGet(payload.v, "data").k = "dict"
       /\ DictHas(DictGet(payload.v, "data").v, key)

\* C6: in record mode every event written for a job-polling endpoint
\* carries the projected fields of a kept entry (severity label, timestamp,
\* source host, message).
Claim_C6 ==
  index_type = "events" =>
    \A h \in Targets : \A i \in 1..Len(sink[h]) :
      sink[h][i].source = N_t => CarriesProjection(sink[h][i].data.body)

\* C9: at the end of the run the tally's total is the number of events the
\* sink received, and every returned count is the number of events that
\* target's worker delivered.
Claim_C9 ==
  ctrl = "done" =>
    /\ tally.total_events_all_hosts = SeqSum([h \in 1..Len(hosts) |-> Len(sink[h])])
    /\ \A h \in Targets :
         worker[h].pc = "returned" => worker[h].ret.count = Len(sink[h])

====
